---- MODULE Spec2Model ----
(***************************************************************************)
(* vcpkg-harbor: the storage backends (app/storage/file.py and             *)
(* app/storage/minio.py) over a shared substrate (a directory tree or a    *)
(* bucket), driven by concurrent request tasks.                            *)
(*                                                                         *)
(* A string is a sequence of one-character strings, so that the path and   *)
(* object-name derivations (str(), Path.with_suffix, Path.stem, endswith,  *)
(* split) are computed as the code computes them.  A file or object        *)
(* content is a sequence of byte values.                                   *)
(***************************************************************************)
EXTENDS Integers, Sequences, FiniteSets, TLC

(***************************************************************************)
(* Bounds of the model.                                                    *)
(***************************************************************************)
\* operations one task issues, one after the other
MaxOps == 4
\* substrate calls the environment may make fail (transient I/O failures)
MaxFaults == 1
\* bytes one read() returns at most (chunk_size, 8192 in the code, scaled)
ChunkSize == 2

(***************************************************************************)
(* Program constants.                                                      *)
(***************************************************************************)
\* base.py: len(package.sha) < 8 is rejected
MinShaLen == 8
\* minio.py: stop_after_attempt(3)
MaxAttempts == 3
\* json text starts with "{" and ends with "}"
LBrace == 123
RBrace == 125

Tasks == {"t1", "t2"}

(***************************************************************************)
(* Strings.                                                                *)
(***************************************************************************)
Slash == "/"
Dot == "."
Nul == "NUL"

sP == <<"p">>
sQ == <<"q">>
sV1 == <<"1">>
sV2 == <<"2">>
sDotDot == <<".", ".">>
sNulName == <<"p", "NUL">>
sEmpty == <<>>
sShaA == <<"a", "b", "c", "d", "e", "f", "g", "h">>
sShaN == <<"1", "2", "3", "4", "5", "6", "7", "8">>
sShaShort == <<"s", "h", "a", "1">>
\* FileStorageBackend.metadata_suffix, MinioStorageBackend.metadata_suffix
metadata_suffix == <<".", "m", "e", "t", "a", ".", "j", "s", "o", "n">>
sShaX == sShaA \o <<".", "x", "1">>
sShaMeta == sShaA \o metadata_suffix

\* PackageIdentifier(name, version, sha)
PackageIdentifier(n, v, s) == [name |-> n, version |-> v, sha |-> s]

KA == PackageIdentifier(sP, sV1, sShaA)
KX == PackageIdentifier(sP, sV1, sShaX)
KM == PackageIdentifier(sP, sV1, sShaMeta)
KV == PackageIdentifier(sP, sV2, sShaN)
KB == PackageIdentifier(sP, sV1, sShaN)
KO == PackageIdentifier(sQ, sV1, sShaA)
KEmptyName == PackageIdentifier(sEmpty, sV1, sShaA)
KEmptyVersion == PackageIdentifier(sP, sEmpty, sShaA)
KEmptySha == PackageIdentifier(sP, sV1, sEmpty)
KShortSha == PackageIdentifier(sP, sV1, sShaShort)
KDotDot == PackageIdentifier(sDotDot, sV1, sShaA)
KNul == PackageIdentifier(sNulName, sV1, sShaA)

\* s[a..b], empty when a > b
Slice(s, a, b) == [i \in 1..(b - a + 1) |-> s[a + i - 1]]

\* str.endswith
EndsWith(s, suf) ==
    /\ Len(suf) <= Len(s)
    /\ Slice(s, Len(s) - Len(suf) + 1, Len(s)) = suf

\* str.startswith
StartsWith(s, pre) ==
    /\ Len(pre) <= Len(s)
    /\ Slice(s, 1, Len(pre)) = pre

\* sub in s
Contains(s, sub) ==
    \E i \in 1..(Len(s) - Len(sub) + 1) : Slice(s, i, i + Len(sub) - 1) = sub

\* the characters c occurs at
Positions(s, c) == {i \in 1..Len(s) : s[i] = c}

\* str.rfind(c), 1-based, 0 when absent
RFind(s, c) ==
    IF Positions(s, c) = {} THEN 0
    ELSE CHOOSE i \in Positions(s, c) : \A j \in Positions(s, c) : j <= i

\* str.split(c)
RECURSIVE Split(_, _)
Split(s, c) ==
    IF Positions(s, c) = {} THEN <<s>>
    ELSE LET i == RFind(s, c)
         IN  Split(Slice(s, 1, i - 1), c) \o <<Slice(s, i + 1, Len(s))>>

(***************************************************************************)
(* Key model (base.py).                                                    *)
(***************************************************************************)
ValidKeys == {KA, KX, KM, KV, KO, KB}
InvalidKeys == {KEmptyName, KEmptyVersion, KEmptySha, KShortSha, KDotDot, KNul}
Keys == ValidKeys \cup InvalidKeys

\* PackageIdentifier.__str__ / get_path: f"{name}/{version}/{sha}"
get_path(k) == k.name \o <<Slash>> \o k.version \o <<Slash>> \o k.sha

\* BaseStorageBackend._validate_package: TRUE when it raises ValueError
_validate_package_raises(k) ==
    \/ k.name = <<>> \/ k.version = <<>> \/ k.sha = <<>>
    \/ Len(k.sha) < MinShaLen

(***************************************************************************)
(* pathlib, as far as file.py uses it.  A path is the sequence of its      *)
(* components below the storage root.                                      *)
(***************************************************************************)
\* Path(root) / text: the components of text; empty and "." components drop
PathParts(text) ==
    SelectSeq(Split(text, Slash), LAMBDA c : c # <<>> /\ c # <<Dot>>)

\* PurePath.suffix of a file name: from the last dot, unless the dot is the
\* first or the last character
Suffix(name) ==
    LET i == RFind(name, Dot)
    IN  IF 1 < i /\ i < Len(name) THEN Slice(name, i, Len(name)) ELSE <<>>

\* PurePath.stem
Stem(name) ==
    LET i == RFind(name, Dot)
    IN  IF 1 < i /\ i < Len(name) THEN Slice(name, 1, i - 1) ELSE name

\* path.parent
Parent(path) == Slice(path, 1, Len(path) - 1)

\* path.name
Name(path) == path[Len(path)]

\* PurePath.with_suffix: the old suffix, if any, is REPLACED
with_suffix(path, suffix) ==
    Parent(path) \o <<Stem(Name(path)) \o suffix>>

\* FileStorageBackend._get_package_path
_get_package_path(k) == PathParts(get_path(k))

\* FileStorageBackend._get_metadata_path
_get_metadata_path(path) == with_suffix(path, metadata_suffix)

\* MinioStorageBackend._get_object_name
_get_object_name(k) == k.name \o <<Slash>> \o k.version \o <<Slash>> \o k.sha

\* MinioStorageBackend._get_metadata_name
_get_metadata_name(k) == _get_object_name(k) \o metadata_suffix

(***************************************************************************)
(* Sidecar records and their JSON text.  The text is modelled as the byte  *)
(* sequence  { name version sha size content_type }  in which a string is  *)
(* written as its index in StringTable; created_at is not modelled.        *)
(***************************************************************************)
StringTable ==
    <<sP, sQ, sV1, sV2, sDotDot, sNulName, sShaA, sShaN, sShaShort, sShaX,
      sShaMeta>>

StrId(s) == CHOOSE i \in 1..Len(StringTable) : StringTable[i] = s

OctetStream == 1

\* PackageMetadata(name, version, sha, size, created_at), content_type default
PackageMetadata(n, v, s, size) ==
    [name |-> n, version |-> v, sha |-> s, size |-> size,
     content_type |-> OctetStream]

\* json.dumps(metadata_dict)
json_dumps(m) ==
    <<LBrace, StrId(m.name), StrId(m.version), StrId(m.sha), m.size,
      m.content_type, RBrace>>

\* json.loads accepts the text
json_ok(text) ==
    /\ Len(text) = 7
    /\ text[1] = LBrace
    /\ text[7] = RBrace
    /\ \A i \in 2..4 : text[i] \in 1..Len(StringTable)

\* PackageMetadata(**json.loads(text))
json_loads(text) ==
    [name |-> StringTable[text[2]], version |-> StringTable[text[3]],
     sha |-> StringTable[text[4]], size |-> text[5], content_type |-> text[6]]

(***************************************************************************)
(* State.                                                                  *)
(*   backend  which backend the service was configured with                *)
(*   sc       the workload: the keys and payloads the clients use, how     *)
(*            many operations each task issues, the failures to inject,    *)
(*            the read-only and write-only settings of the server, the     *)
(*            substrate calls that may fail (all, when none is named)      *)
(*   files    the regular files below the storage root: path -> content    *)
(*   dirs     the directories below the storage root                       *)
(*   work     the files of work_dir: temp name -> content                  *)
(*   objects  the bucket: object name -> content                           *)
(*   bucket   whether the configured bucket exists on the object store     *)
(*   faults   substrate failures the environment may still inject          *)
(*   task     each request task: its operation, position and locals        *)
(*   hist     the finished operations of all tasks, in the order they      *)
(*            returned; each records how many had returned when it began   *)
(***************************************************************************)
VARIABLES backend, sc, files, dirs, work, objects, bucket, faults, task, hist

vars == <<backend, sc, files, dirs, work, objects, bucket, faults, task, hist>>

\* what no handler of a package operation changes
conf == <<backend, sc, bucket>>

store == <<files, dirs, work, objects>>

Payloads == {<<>>, <<1>>, <<1, 2, 3>>, <<3, 2, 1, 3, 2>>}

Ops == {"put", "get", "exists", "delete", "get_metadata", "list_versions",
        "list_all_versions", "cleanup"}

\* the package routes of the HTTP layer: HEAD, GET and PUT /name/version/sha
HttpOps == {"http_head", "http_get", "http_put"}

\* a function with x mapped to v / with x removed
MapPut(f, x, v) == [y \in (DOMAIN f) \cup {x} |-> IF y = x THEN v ELSE f[y]]
MapDel(f, x) == [y \in (DOMAIN f) \ {x} |-> f[y]]

\* a task between two operations, having issued n
Idle(n) ==
    [pc |-> "idle", op |-> "none", key |-> KA, data |-> <<>>, rpos |-> 0,
     sink |-> <<>>, size |-> 0, tmp |-> <<>>, up |-> <<>>, attempt |-> 1,
     inner |-> 1, calls |-> 0, pub |-> FALSE, n |-> n, start |-> 0]

\* the operation returns or raises: its record joins the task's history
Finish(t, status, ret, sink) ==
    /\ task' = [task EXCEPT ![t] = Idle(task[t].n)]
    /\ hist' = Append(hist,
                   [t |-> t, op |-> task[t].op, key |-> task[t].key,
                    data |-> task[t].data, status |-> status, ret |-> ret,
                    sink |-> sink, attempts |-> task[t].attempt,
                    start |-> task[t].start])

\* the task moves on inside its operation
Goto(t, rec) == task' = [task EXCEPT ![t] = rec] /\ hist' = hist

(***************************************************************************)
(* Streams.                                                                *)
(***************************************************************************)
\* the chunks successive read(ChunkSize) calls return from position pos on,
\* up to the first empty one
RECURSIVE Chunks(_, _)
Chunks(data, pos) ==
    IF pos >= Len(data) THEN <<>>
    ELSE LET end == IF pos + ChunkSize <= Len(data) THEN pos + ChunkSize
                    ELSE Len(data)
         IN  <<Slice(data, pos + 1, end)>> \o Chunks(data, end)

\* the concatenation of the first j chunks
RECURSIVE Concat(_, _)
Concat(chunks, j) ==
    IF j = 0 THEN <<>> ELSE Concat(chunks, j - 1) \o chunks[j]

\* "while chunk := reader.read(n): size += len(chunk); out.write(chunk)":
\* what the loop has written once the read returns nothing
CopyAll(data, pos) == Concat(Chunks(data, pos), Len(Chunks(data, pos)))

\* what the loop has written when it breaks off after j chunks
CopySome(data, pos, j) == Concat(Chunks(data, pos), j)

(***************************************************************************)
(* The file system below the storage root.                                 *)
(***************************************************************************)
OutsideDirs == {<<sDotDot>>}
IsFile(p) == p \in DOMAIN files
IsDir(p) == p = <<>> \/ p \in dirs \/ p \in OutsideDirs
\* Path.exists
PathExists(p) == IsFile(p) \/ IsDir(p)
\* the proper ancestors of p and p itself, the root excluded
Ancestors(p) == {Slice(p, 1, i) : i \in 1..Len(p)}
\* os.rmdir succeeds on an existing, empty directory
IsEmptyDir(d) ==
    /\ d \in dirs
    /\ \A f \in DOMAIN files : Parent(f) # d
    /\ \A e \in dirs : e = <<>> \/ Parent(e) # d

\* one key of ks for every (name, version) pair / for every name in ks
VersionReps(ks) ==
    {k \in ks : k = CHOOSE r \in ks : r.name = k.name /\ r.version = k.version}
NameReps(ks) ==
    {k \in ks : k = CHOOSE r \in ks : r.name = k.name}

\* the start of an operation: the task picks it and its arguments
Begin(t) ==
    /\ task[t].pc = "idle"
    /\ task[t].n < sc.quota[t]
    /\ \E op \in sc.ops, k \in sc.keys[t], d \in sc.pays \cup {<<>>} :
          /\ op \in {"put", "http_put"} => d \in sc.pays
          /\ op \notin {"put", "http_put"} => d = <<>>
          /\ op = "cleanup" => k = CHOOSE r \in sc.keys[t] : TRUE
          /\ op = "list_versions" => k \in VersionReps(sc.keys[t] \cap ValidKeys)
          /\ op = "list_all_versions" => k \in NameReps(sc.keys[t] \cap ValidKeys)
          /\ Goto(t, [Idle(task[t].n + 1) EXCEPT
                        !.pc = op, !.op = op, !.key = k, !.data = d,
                        !.start = Len(hist)])
    /\ UNCHANGED <<conf, store, faults>>

\* the substrate call the task t is about to make may fail: failures remain
\* to inject and the scenario lets this call fail
Fails(t) ==
    /\ faults > 0
    /\ sc.flaky = {} \/ task[t].pc \in sc.flaky

(***************************************************************************)
(* Filesystem backend (file.py).  Every action is one step of a handler    *)
(* between two points at which another worker process can act on the       *)
(* directory tree.  A step that calls the operating system may fail with   *)
(* OSError while faults remain.                                            *)
(***************************************************************************)
IsFileBackend == backend = "file"

\* a path with an embedded null byte never reaches the operating system:
\* Path.exists answers False, every other call raises ValueError
HasNul(path) == \E i \in 1..Len(path) : Contains(path[i], <<Nul>>)

\* "except OSError" in put: the temp file, if still there, is unlinked
PutFailed(t) ==
    /\ work' = IF task[t].tmp \in DOMAIN work THEN MapDel(work, task[t].tmp)
               ELSE work
    /\ Finish(t, "StorageWriteError", 0, <<>>)

\* put with the source copied into the temp file before the existence check
FilePut_ReadFirst(t) ==
    /\ IsFileBackend /\ task[t].pc = "put"
    /\ LET k == task[t].key
           final == _get_package_path(k)
           tmp == <<t, task[t].n>>
       IN  IF _validate_package_raises(k) \/ HasNul(final)
           THEN Finish(t, "ValueError", 0, <<>>) /\ UNCHANGED <<store, faults>>
           ELSE /\ work' = MapPut(work, tmp, CopyAll(task[t].data, task[t].rpos))
                /\ IF PathExists(final)
                   THEN Finish(t, "AlreadyExists", 0, <<>>)
                   ELSE Goto(t, [task[t] EXCEPT
                                   !.pc = "f_put_mkdir", !.tmp = tmp,
                                   !.rpos = Len(task[t].data),
                                   !.size = Len(CopyAll(task[t].data, task[t].rpos))])
                /\ UNCHANGED <<files, dirs, objects, faults>>
    /\ UNCHANGED conf

\* put, lines 119-140: validation, the existence check, the temp file and
\* the chunked copy of the source into it
FilePut(t) ==
    /\ IsFileBackend /\ task[t].pc = "put"
    /\ LET k == task[t].key
           final == _get_package_path(k)
           tmp == <<t, task[t].n>>
       IN  IF _validate_package_raises(k)
           THEN Finish(t, "ValueError", 0, <<>>) /\ UNCHANGED <<store, faults>>
           ELSE IF HasNul(final)
           THEN Finish(t, "ValueError", 0, <<>>) /\ UNCHANGED <<store, faults>>
           ELSE IF PathExists(final)
           THEN Finish(t, "AlreadyExists", 0, <<>>)
                /\ UNCHANGED <<store, faults>>
           ELSE \/ /\ work' = MapPut(work, tmp, CopyAll(task[t].data, task[t].rpos))
                   /\ Goto(t, [task[t] EXCEPT
                                 !.pc = "f_put_mkdir", !.tmp = tmp,
                                 !.rpos = Len(task[t].data),
                                 !.size = Len(CopyAll(task[t].data, task[t].rpos))])
                   /\ UNCHANGED <<files, dirs, objects, faults>>
                \/ /\ Fails(t)
                   /\ faults' = faults - 1
                   /\ Finish(t, "StorageWriteError", 0, <<>>)
                   /\ UNCHANGED store
    /\ UNCHANGED conf

\* put, line 143: final_path.parent.mkdir(parents=True, exist_ok=True)
FilePutMkdir(t) ==
    /\ IsFileBackend /\ task[t].pc = "f_put_mkdir"
    /\ LET parent == Parent(_get_package_path(task[t].key))
       IN  \/ /\ \A a \in Ancestors(parent) : ~IsFile(a)
              /\ dirs' = dirs \cup (Ancestors(parent) \ OutsideDirs)
              /\ Goto(t, [task[t] EXCEPT !.pc = "f_put_move"])
              /\ UNCHANGED <<files, work, objects, faults>>
           \/ /\ \E a \in Ancestors(parent) : IsFile(a)
              /\ PutFailed(t)
              /\ UNCHANGED <<files, dirs, objects, faults>>
           \/ /\ Fails(t)
              /\ faults' = faults - 1
              /\ PutFailed(t)
              /\ UNCHANGED <<files, dirs, objects>>
    /\ UNCHANGED conf

\* shutil.move on one volume is os.rename: the content appears at once
Publish(fs, final, content) == MapPut(fs, final, content)

\* put, line 146: shutil.move(temp_path, final_path); pub records that this
\* put call has published a payload
FilePutMove(t) ==
    /\ IsFileBackend /\ task[t].pc = "f_put_move"
    /\ LET final == _get_package_path(task[t].key)
           can == /\ task[t].tmp \in DOMAIN work
                  /\ IsDir(Parent(final))
                  /\ ~IsDir(final)
       IN  \/ /\ can
              /\ files' = Publish(files, final, work[task[t].tmp])
              /\ work' = MapDel(work, task[t].tmp)
              /\ Goto(t, [task[t] EXCEPT !.pc = "f_put_meta", !.pub = TRUE])
              /\ UNCHANGED <<dirs, objects, faults>>
           \/ /\ ~can
              /\ PutFailed(t)
              /\ UNCHANGED <<files, dirs, objects, faults>>
           \/ /\ Fails(t)
              /\ faults' = faults - 1
              /\ PutFailed(t)
              /\ UNCHANGED <<files, dirs, objects>>
    /\ UNCHANGED conf

\* put, lines 149-155 and minio.py 167-173
PutMetadata(k, size) == PackageMetadata(k.name, k.version, k.sha, size)

\* put, lines 148-164, and _save_metadata: the sidecar is written next to
\* the published payload; StorageError is not caught by put
FilePutMeta(t) ==
    /\ IsFileBackend /\ task[t].pc = "f_put_meta"
    /\ LET final == _get_package_path(task[t].key)
           mp == _get_metadata_path(final)
           can == IsDir(Parent(mp)) /\ ~IsDir(mp)
       IN  \/ /\ can
              /\ files' = MapPut(files, mp,
                                 json_dumps(PutMetadata(task[t].key, task[t].size)))
              /\ Finish(t, "ok", task[t].size, <<>>)
              /\ UNCHANGED <<dirs, work, objects, faults>>
           \/ /\ ~can
              /\ Finish(t, "StorageError", 0, <<>>)
              /\ UNCHANGED <<store, faults>>
           \/ /\ Fails(t)
              /\ faults' = faults - 1
              /\ Finish(t, "StorageError", 0, <<>>)
              /\ UNCHANGED store
    /\ UNCHANGED conf

\* get, lines 96-100
FileGet(t) ==
    /\ IsFileBackend /\ task[t].pc = "get"
    /\ LET path == _get_package_path(task[t].key)
       IN  IF _validate_package_raises(task[t].key)
           THEN Finish(t, "ValueError", 0, <<>>)
           ELSE IF HasNul(path) \/ ~PathExists(path)
           THEN Finish(t, "NotFound", 0, <<>>)
           ELSE Goto(t, [task[t] EXCEPT !.pc = "f_get_open"])
    /\ UNCHANGED <<conf, store, faults>>

\* get, lines 102-115: open and the chunked copy into the writer; the open
\* file keeps its content whatever happens to the path afterwards
FileGetOpen(t) ==
    /\ IsFileBackend /\ task[t].pc = "f_get_open"
    /\ LET path == _get_package_path(task[t].key)
       IN  \/ /\ IsFile(path)
              /\ Finish(t, "ok", 0, task[t].sink \o CopyAll(files[path], 0))
              /\ UNCHANGED faults
           \/ /\ ~IsFile(path)
              /\ Finish(t, "StorageReadError", 0, task[t].sink)
              /\ UNCHANGED faults
           \/ /\ Fails(t) /\ IsFile(path)
              /\ faults' = faults - 1
              /\ \E j \in 0..Len(Chunks(files[path], 0)) :
                    Finish(t, "StorageReadError", 0,
                           task[t].sink \o CopySome(files[path], 0, j))
    /\ UNCHANGED <<conf, store>>

\* exists, lines 176-180
FileExists(t) ==
    /\ IsFileBackend /\ task[t].pc = "exists"
    /\ LET path == _get_package_path(task[t].key)
       IN  IF _validate_package_raises(task[t].key)
           THEN Finish(t, "ValueError", FALSE, <<>>)
           ELSE Finish(t, "ok", ~HasNul(path) /\ PathExists(path), <<>>)
    /\ UNCHANGED <<conf, store, faults>>

\* delete, lines 184-189
FileDelete(t) ==
    /\ IsFileBackend /\ task[t].pc = "delete"
    /\ LET path == _get_package_path(task[t].key)
       IN  IF _validate_package_raises(task[t].key)
           THEN Finish(t, "ValueError", 0, <<>>)
           ELSE IF HasNul(path) \/ ~PathExists(path)
           THEN Finish(t, "NotFound", 0, <<>>)
           ELSE Goto(t, [task[t] EXCEPT !.pc = "f_del_unlink"])
    /\ UNCHANGED <<conf, store, faults>>

\* delete, line 193: path.unlink()
FileDeleteUnlink(t) ==
    /\ IsFileBackend /\ task[t].pc = "f_del_unlink"
    /\ LET path == _get_package_path(task[t].key)
       IN  \/ /\ IsFile(path)
              /\ files' = MapDel(files, path)
              /\ Goto(t, [task[t] EXCEPT !.pc = "f_del_meta"])
              /\ UNCHANGED faults
           \/ /\ ~IsFile(path)
              /\ Finish(t, "StorageError", 0, <<>>)
              /\ UNCHANGED <<files, faults>>
           \/ /\ Fails(t)
              /\ faults' = faults - 1
              /\ Finish(t, "StorageError", 0, <<>>)
              /\ UNCHANGED files
    /\ UNCHANGED <<conf, dirs, work, objects>>

\* delete, line 194: metadata_path.unlink(missing_ok=True)
FileDeleteMeta(t) ==
    /\ IsFileBackend /\ task[t].pc = "f_del_meta"
    /\ LET path == _get_package_path(task[t].key)
           mp == _get_metadata_path(path)
       IN  \/ /\ ~IsDir(mp)
              /\ files' = IF IsFile(mp) THEN MapDel(files, mp) ELSE files
              /\ Goto(t, [task[t] EXCEPT !.pc = "f_del_rmdir", !.up = Parent(path)])
              /\ UNCHANGED faults
           \/ /\ IsDir(mp)
              /\ Finish(t, "StorageError", 0, <<>>)
              /\ UNCHANGED <<files, faults>>
           \/ /\ Fails(t)
              /\ faults' = faults - 1
              /\ Finish(t, "StorageError", 0, <<>>)
              /\ UNCHANGED files
    /\ UNCHANGED <<conf, dirs, work, objects>>

\* delete, lines 197-205: one turn of "while parent != self.root", or its end
FileDeleteRmdir(t) ==
    /\ IsFileBackend /\ task[t].pc = "f_del_rmdir"
    /\ LET up == task[t].up
       IN  IF up # <<>> /\ IsEmptyDir(up)
           THEN /\ dirs' = dirs \ {up}
                /\ Goto(t, [task[t] EXCEPT !.up = Parent(up)])
           ELSE /\ Finish(t, "ok", 0, <<>>)
                /\ dirs' = dirs
    /\ UNCHANGED <<conf, files, work, objects, faults>>

\* get_metadata, lines 234-239
FileGetMetadata(t) ==
    /\ IsFileBackend /\ task[t].pc = "get_metadata"
    /\ LET path == _get_package_path(task[t].key)
       IN  IF _validate_package_raises(task[t].key)
           THEN Finish(t, "ValueError", 0, <<>>)
           ELSE IF HasNul(path) \/ ~PathExists(path)
           THEN Finish(t, "NotFound", 0, <<>>)
           ELSE Goto(t, [task[t] EXCEPT !.pc = "f_gm_load"])
    /\ UNCHANGED <<conf, store, faults>>

\* get_metadata, lines 241-260: the sidecar if there is one, else a record
\* synthesized from the payload's stat
FileGetMetadataLoad(t) ==
    /\ IsFileBackend /\ task[t].pc = "f_gm_load"
    /\ LET k == task[t].key
           path == _get_package_path(k)
           mp == _get_metadata_path(path)
       IN  \/ /\ IsFile(mp) /\ json_ok(files[mp])
              /\ Finish(t, "ok", json_loads(files[mp]), <<>>)
              /\ UNCHANGED faults
           \/ /\ \/ IsFile(mp) /\ ~json_ok(files[mp])
                 \/ IsDir(mp)
                 \/ ~PathExists(mp) /\ ~IsFile(path)
              /\ Finish(t, "StorageError", 0, <<>>)
              /\ UNCHANGED faults
           \/ /\ ~PathExists(mp) /\ IsFile(path)
              /\ Finish(t, "ok",
                        PackageMetadata(k.name, k.version, k.sha, Len(files[path])),
                        <<>>)
              /\ UNCHANGED faults
           \/ /\ Fails(t)
              /\ faults' = faults - 1
              /\ Finish(t, "StorageError", 0, <<>>)
    /\ UNCHANGED <<conf, store>>

\* list_versions, line 275: sha=path.stem
EntrySha(fname) == Stem(fname)

\* list_versions, lines 264-280: the entries of root/name/version that are
\* files and do not end with the metadata suffix
FileListVersions(t) ==
    /\ IsFileBackend /\ task[t].pc = "list_versions"
    /\ LET k == task[t].key
           version_dir == PathParts(k.name) \o PathParts(k.version)
           entries == {f \in DOMAIN files :
                          /\ Parent(f) = version_dir
                          /\ ~EndsWith(Name(f), metadata_suffix)}
       IN  IF ~PathExists(version_dir)
           THEN Finish(t, "ok", [shas |-> {}, n |-> 0], <<>>)
           ELSE Finish(t, "ok",
                       [shas |-> {EntrySha(Name(f)) : f \in entries},
                        n |-> Cardinality(entries)], <<>>)
    /\ UNCHANGED <<conf, store, faults>>

\* list_all_versions, lines 284-296: the subdirectories of root/name
FileListAllVersions(t) ==
    /\ IsFileBackend /\ task[t].pc = "list_all_versions"
    /\ LET package_dir == PathParts(task[t].key.name)
       IN  IF ~PathExists(package_dir)
           THEN Finish(t, "ok", {}, <<>>)
           ELSE Finish(t, "ok",
                       {Name(d) : d \in {e \in dirs : e # <<>> /\ Parent(e) = package_dir}},
                       <<>>)
    /\ UNCHANGED <<conf, store, faults>>

\* initialize, lines 46-64: root and work_dir are made if missing and a test
\* file is written, read and removed; an OSError becomes StorageError
FileInitialize(t) ==
    /\ IsFileBackend /\ task[t].pc = "initialize"
    /\ \/ /\ Finish(t, "ok", 0, <<>>)
          /\ UNCHANGED faults
       \/ /\ Fails(t)
          /\ faults' = faults - 1
          /\ Finish(t, "StorageError", 0, <<>>)
    /\ UNCHANGED <<conf, store>>

FileCleanup_Recursive(t) ==
    /\ IsFileBackend /\ task[t].pc = "cleanup"
    /\ work' = <<>>
    /\ files' = <<>>
    /\ Finish(t, "ok", 0, <<>>)
    /\ UNCHANGED <<conf, dirs, objects, faults>>

\* cleanup, lines 300-310: every file of work_dir is unlinked
FileCleanup(t) ==
    /\ IsFileBackend /\ task[t].pc = "cleanup"
    /\ \/ /\ work' = <<>>
          /\ Finish(t, "ok", 0, <<>>)
          /\ UNCHANGED faults
       \/ /\ Fails(t)
          /\ faults' = faults - 1
          /\ Finish(t, "StorageError", 0, <<>>)
          /\ UNCHANGED work
    /\ UNCHANGED <<conf, files, dirs, objects>>

(***************************************************************************)
(* Object-storage backend (minio.py).  Every action is one substrate call  *)
(* of a handler.  The bucket answers as the client the tests install       *)
(* does: get_object and remove_object of a missing object raise            *)
(* NoSuchKey, put_object replaces.  Every handler but cleanup runs under   *)
(* @retry(stop_after_attempt(3)), which retries on any exception.          *)
(***************************************************************************)
IsMinioBackend == backend = "minio"

\* the decorated handler raised (tenacity retries whatever the exception):
\* it is called again with the same arguments
\* (the same reader and writer objects, as far as they have been read and
\* written) until the third attempt has failed
Retry_Once(t, status, sink, rpos) == Finish(t, status, 0, sink)

Retry(t, status, sink, rpos) ==
    IF task[t].attempt < MaxAttempts
    THEN Goto(t, [task[t] EXCEPT !.pc = task[t].op, !.attempt = @ + 1,
                                 !.inner = 1, !.sink = sink, !.rpos = rpos,
                                 !.size = 0])
    ELSE Finish(t, status, 0, sink)

\* the existence check of put has called stat_object once more; then as
\* Goto(t, rec) when the attempt goes on, as Raise(t, status) when it raises
Checked(t, rec) == Goto(t, [rec EXCEPT !.calls = @ + 1])
CheckedRaise(t, status) ==
    IF task[t].attempt < MaxAttempts
    THEN Checked(t, [task[t] EXCEPT !.pc = task[t].op, !.attempt = @ + 1,
                                    !.inner = 1, !.size = 0])
    ELSE Finish(t, status, 0, task[t].sink)

\* an attempt that has read and written nothing raises
Raise(t, status) == Retry(t, status, task[t].sink, task[t].rpos)

\* put, lines 137-146: validation and "await self.exists(package)", itself
\* a decorated handler that retries its stat_object call; calls counts the
\* stat_object calls the existence check of one put call has made
MinioPut(t) ==
    /\ IsMinioBackend /\ task[t].pc = "put"
    /\ LET k == task[t].key
       IN  IF _validate_package_raises(k)
           THEN Raise(t, "ValueError") /\ UNCHANGED faults
           ELSE \/ /\ _get_object_name(k) \in DOMAIN objects
                   /\ CheckedRaise(t, "AlreadyExists")
                   /\ UNCHANGED faults
                \/ /\ _get_object_name(k) \notin DOMAIN objects
                   /\ Checked(t, [task[t] EXCEPT !.pc = "m_put_upload"])
                   /\ UNCHANGED faults
                \/ /\ Fails(t)
                   /\ faults' = faults - 1
                   /\ IF task[t].inner < MaxAttempts
                      THEN Checked(t, [task[t] EXCEPT !.inner = @ + 1])
                      ELSE CheckedRaise(t, "MinioStorageError")
    /\ UNCHANGED <<conf, store>>

\* put, lines 149-164 and 183-189: the source is read into the buffer, then
\* put_object
MinioPutUpload(t) ==
    /\ IsMinioBackend /\ task[t].pc = "m_put_upload"
    /\ LET buffer == CopyAll(task[t].data, task[t].rpos)
       IN  \/ /\ objects' = Publish(objects, _get_object_name(task[t].key), buffer)
              /\ Goto(t, [task[t] EXCEPT !.pc = "m_put_meta", !.pub = TRUE,
                                         !.rpos = Len(task[t].data),
                                         !.size = Len(buffer)])
              /\ UNCHANGED faults
           \/ /\ Fails(t)
              /\ faults' = faults - 1
              /\ objects' = objects
              /\ Retry(t, "StorageWriteError", task[t].sink, Len(task[t].data))
    /\ UNCHANGED <<conf, files, dirs, work>>

\* put, lines 166-181, and _save_metadata: the sidecar object is uploaded
MinioPutMeta(t) ==
    /\ IsMinioBackend /\ task[t].pc = "m_put_meta"
    /\ \/ /\ objects' = MapPut(objects, _get_metadata_name(task[t].key),
                               json_dumps(PutMetadata(task[t].key, task[t].size)))
          /\ Finish(t, "ok", task[t].size, <<>>)
          /\ UNCHANGED faults
       \/ /\ Fails(t)
          /\ faults' = faults - 1
          /\ objects' = objects
          /\ Raise(t, "MinioStorageError")
    /\ UNCHANGED <<conf, files, dirs, work>>

\* get, lines 99-128: get_object and the chunked copy of the response into
\* the writer; a failure of the call or of a later read ends the attempt
MinioGet(t) ==
    /\ IsMinioBackend /\ task[t].pc = "get"
    /\ LET name == _get_object_name(task[t].key)
       IN  IF _validate_package_raises(task[t].key)
           THEN Raise(t, "ValueError") /\ UNCHANGED faults
           ELSE \/ /\ name \notin DOMAIN objects
                   /\ Raise(t, "NotFound")
                   /\ UNCHANGED faults
                \/ /\ name \in DOMAIN objects
                   /\ Finish(t, "ok", 0, task[t].sink \o CopyAll(objects[name], 0))
                   /\ UNCHANGED faults
                \/ /\ Fails(t) /\ name \in DOMAIN objects
                   /\ faults' = faults - 1
                   /\ \E j \in 0..Len(Chunks(objects[name], 0)) :
                         Retry(t, "StorageReadError",
                               task[t].sink \o CopySome(objects[name], 0, j),
                               task[t].rpos)
    /\ UNCHANGED <<conf, store>>

\* exists, lines 226-236: stat_object
MinioExists(t) ==
    /\ IsMinioBackend /\ task[t].pc = "exists"
    /\ IF _validate_package_raises(task[t].key)
       THEN Raise(t, "ValueError") /\ UNCHANGED faults
       ELSE \/ /\ Finish(t, "ok", _get_object_name(task[t].key) \in DOMAIN objects, <<>>)
               /\ UNCHANGED faults
            \/ /\ Fails(t)
               /\ faults' = faults - 1
               /\ Raise(t, "MinioStorageError")
    /\ UNCHANGED <<conf, store>>

\* delete, lines 245-251 and 257-265: remove_object of the payload
MinioDelete(t) ==
    /\ IsMinioBackend /\ task[t].pc = "delete"
    /\ LET name == _get_object_name(task[t].key)
       IN  IF _validate_package_raises(task[t].key)
           THEN Raise(t, "ValueError") /\ UNCHANGED <<objects, faults>>
           ELSE \/ /\ name \notin DOMAIN objects
                   /\ Raise(t, "NotFound")
                   /\ UNCHANGED <<objects, faults>>
                \/ /\ name \in DOMAIN objects
                   /\ objects' = MapDel(objects, name)
                   /\ Goto(t, [task[t] EXCEPT !.pc = "m_del_meta"])
                   /\ UNCHANGED faults
                \/ /\ Fails(t)
                   /\ faults' = faults - 1
                   /\ objects' = objects
                   /\ Raise(t, "MinioStorageError")
    /\ UNCHANGED <<conf, files, dirs, work>>

\* delete, lines 252-256: remove_object of the sidecar, S3Error ignored
MinioDeleteMeta(t) ==
    /\ IsMinioBackend /\ task[t].pc = "m_del_meta"
    /\ LET name == _get_metadata_name(task[t].key)
       IN  \/ /\ objects' = IF name \in DOMAIN objects THEN MapDel(objects, name)
                            ELSE objects
              /\ UNCHANGED faults
           \/ /\ Fails(t)
              /\ faults' = faults - 1
              /\ objects' = objects
    /\ Finish(t, "ok", 0, <<>>)
    /\ UNCHANGED <<conf, files, dirs, work>>

\* get_metadata, lines 274-290: get_object of the sidecar
MinioGetMetadata(t) ==
    /\ IsMinioBackend /\ task[t].pc = "get_metadata"
    /\ LET name == _get_metadata_name(task[t].key)
       IN  IF _validate_package_raises(task[t].key)
           THEN Raise(t, "ValueError") /\ UNCHANGED faults
           ELSE \/ /\ name \in DOMAIN objects /\ json_ok(objects[name])
                   /\ Finish(t, "ok", json_loads(objects[name]), <<>>)
                   /\ UNCHANGED faults
                \/ /\ name \in DOMAIN objects /\ ~json_ok(objects[name])
                   /\ Raise(t, "JSONDecodeError")
                   /\ UNCHANGED faults
                \/ /\ name \notin DOMAIN objects
                   /\ Goto(t, [task[t] EXCEPT !.pc = "m_gm_stat"])
                   /\ UNCHANGED faults
                \/ /\ Fails(t)
                   /\ faults' = faults - 1
                   /\ Raise(t, "MinioStorageError")
    /\ UNCHANGED <<conf, store>>

MinioGetMetadataStat_NoFallback(t) ==
    /\ IsMinioBackend /\ task[t].pc = "m_gm_stat"
    /\ Raise(t, "NotFound")
    /\ UNCHANGED <<conf, store, faults>>

\* get_metadata, lines 292-307: stat_object of the payload
MinioGetMetadataStat(t) ==
    /\ IsMinioBackend /\ task[t].pc = "m_gm_stat"
    /\ LET k == task[t].key
           name == _get_object_name(k)
       IN  \/ /\ name \in DOMAIN objects
              /\ Finish(t, "ok",
                        PackageMetadata(k.name, k.version, k.sha, Len(objects[name])),
                        <<>>)
              /\ UNCHANGED faults
           \/ /\ name \notin DOMAIN objects
              /\ Raise(t, "NotFound")
              /\ UNCHANGED faults
           \/ /\ Fails(t)
              /\ faults' = faults - 1
              /\ Raise(t, "MinioStorageError")
    /\ UNCHANGED <<conf, store>>

\* list_versions, lines 316-338: the objects under "name/version/" that do
\* not end with the metadata suffix and split into three parts
MinioListVersions(t) ==
    /\ IsMinioBackend /\ task[t].pc = "list_versions"
    /\ LET k == task[t].key
           prefix == k.name \o <<Slash>> \o k.version \o <<Slash>>
           entries == {o \in DOMAIN objects :
                          /\ StartsWith(o, prefix)
                          /\ ~EndsWith(o, metadata_suffix)
                          /\ Len(Split(o, Slash)) = 3}
       IN  \/ /\ Finish(t, "ok",
                        [shas |-> {Split(o, Slash)[3] : o \in entries},
                         n |-> Cardinality(entries)], <<>>)
              /\ UNCHANGED faults
           \/ /\ Fails(t)
              /\ faults' = faults - 1
              /\ Raise(t, "MinioStorageError")
    /\ UNCHANGED <<conf, store>>

\* list_all_versions, lines 347-361: the second part of every object name
\* under "name/"
MinioListAllVersions(t) ==
    /\ IsMinioBackend /\ task[t].pc = "list_all_versions"
    /\ LET prefix == task[t].key.name \o <<Slash>>
           entries == {o \in DOMAIN objects :
                          StartsWith(o, prefix) /\ Len(Split(o, Slash)) >= 2}
       IN  \/ /\ Finish(t, "ok", {Split(o, Slash)[2] : o \in entries}, <<>>)
              /\ UNCHANGED faults
           \/ /\ Fails(t)
              /\ faults' = faults - 1
              /\ Raise(t, "MinioStorageError")
    /\ UNCHANGED <<conf, store>>

\* initialize, lines 72-77: bucket_exists; S3Error becomes MinioStorageError
\* (lines 81-82) and the decorated handler is attempted again
MinioInitialize(t) ==
    /\ IsMinioBackend /\ task[t].pc = "initialize"
    /\ \/ /\ bucket
          /\ Finish(t, "ok", 0, <<>>)
          /\ UNCHANGED faults
       \/ /\ ~bucket
          /\ Goto(t, [task[t] EXCEPT !.pc = "m_init_make"])
          /\ UNCHANGED faults
       \/ /\ Fails(t)
          /\ faults' = faults - 1
          /\ Raise(t, "MinioStorageError")
    /\ UNCHANGED <<conf, store>>

MinioInitializeMake_Swallow(t) ==
    /\ IsMinioBackend /\ task[t].pc = "m_init_make"
    /\ \/ /\ ~bucket
          /\ bucket' = TRUE
          /\ Finish(t, "ok", 0, <<>>)
          /\ UNCHANGED faults
       \/ /\ bucket
          /\ Finish(t, "ok", 0, <<>>)
          /\ UNCHANGED <<bucket, faults>>
       \/ /\ Fails(t)
          /\ faults' = faults - 1
          /\ Finish(t, "ok", 0, <<>>)
          /\ UNCHANGED bucket
    /\ UNCHANGED <<backend, sc, store>>

\* initialize, lines 78-82: make_bucket.  On a bucket that is there by now
\* the store answers BucketAlreadyOwnedByYou, an S3Error (the client the
\* tests install returns instead); S3Error becomes MinioStorageError
MinioInitializeMake(t) ==
    /\ IsMinioBackend /\ task[t].pc = "m_init_make"
    /\ \/ /\ ~bucket
          /\ bucket' = TRUE
          /\ Finish(t, "ok", 0, <<>>)
          /\ UNCHANGED faults
       \/ /\ bucket
          /\ \/ Raise(t, "MinioStorageError")
             \/ Finish(t, "ok", 0, <<>>)
          /\ UNCHANGED <<bucket, faults>>
       \/ /\ Fails(t)
          /\ faults' = faults - 1
          /\ Raise(t, "MinioStorageError")
          /\ UNCHANGED bucket
    /\ UNCHANGED <<backend, sc, store>>

\* cleanup, lines 363-366: nothing to release
MinioCleanup(t) ==
    /\ IsMinioBackend /\ task[t].pc = "cleanup"
    /\ Finish(t, "ok", 0, <<>>)
    /\ UNCHANGED <<conf, store, faults>>

(***************************************************************************)
(* The HTTP layer (api/routes.py).  A finished request is recorded with    *)
(* the status code of its response as status and the response body as      *)
(* sink; ret is the Content-Length of a HEAD response, the size_bytes of   *)
(* an upload response, and for a download whether the body was sent to its *)
(* end.  An exception no handler catches is answered 500 by the server.    *)
(* The scenarios with HTTP requests inject no substrate failure.           *)
(***************************************************************************)
\* the methods the backend classes define (file.py, minio.py, base.py)
BackendMethods ==
    {"initialize", "cleanup", "get", "put", "exists", "delete", "get_metadata",
     "list_versions", "list_all_versions"}

\* app.storage_backend: the backend instance the routes import, an instance
\* of the configured backend class
storage_backend == backend

\* await storage_backend.exists(package), for a key that passes validation
BackendExists(k) ==
    IF storage_backend = "file"
    THEN ~HasNul(_get_package_path(k)) /\ PathExists(_get_package_path(k))
    ELSE _get_object_name(k) \in DOMAIN objects

\* check_package, lines 65-88: the mode check, then storage_backend.get_size,
\* an attribute no backend has: AttributeError is neither NotFoundError nor
\* StorageError, and lines 83-86 (the 200 response carrying the size as
\* Content-Length, and the 404 response) are never reached
HttpHead(t) ==
    /\ task[t].pc = "http_head"
    /\ "get_size" \notin BackendMethods
    /\ IF sc.write_only
       THEN Finish(t, "405", 0, <<>>)
       ELSE Finish(t, "500", 0, <<>>)
    /\ UNCHANGED <<conf, store, faults>>

\* download_package, lines 90-105 and 122-134: the mode check, then the
\* StreamingResponse is returned with the generator not yet started: the
\* response begins with status 200
HttpGet(t) ==
    /\ task[t].pc = "http_get"
    /\ IF sc.write_only
       THEN Finish(t, "405", FALSE, <<>>)
       ELSE Goto(t, [task[t] EXCEPT !.pc = "h_get_stream"])
    /\ UNCHANGED <<conf, store, faults>>

\* download_package.stream_package, lines 106-120: the pipe is opened and
\* "storage_backend.get(package, write_pipe)" is called on the class
\* StorageBackend imported at line 98, not on an instance: the call lacks
\* the writer argument and raises TypeError before anything is written into
\* the pipe; the generator re-raises and the body ends unfinished
HttpGetStream(t) ==
    /\ task[t].pc = "h_get_stream"
    /\ Finish(t, "200", FALSE, <<>>)
    /\ UNCHANGED <<conf, store, faults>>

\* upload_package, lines 136-156: the mode check and
\* "await storage_backend.exists(package)"; ValueError is not caught
HttpPut(t) ==
    /\ task[t].pc = "http_put"
    /\ IF sc.read_only
       THEN Finish(t, "405", 0, <<>>)
       ELSE IF _validate_package_raises(task[t].key)
       THEN Finish(t, "500", 0, <<>>)
       ELSE IF BackendExists(task[t].key)
       THEN Finish(t, "409", 0, <<>>)
       ELSE Goto(t, [task[t] EXCEPT !.pc = "h_put_store"])
    /\ UNCHANGED <<conf, store, faults>>

\* upload_package, lines 158-173: storage_backend.put(package,
\* request.stream()).  The source is an async generator, which has no read
\* method: put passes its existence check (AlreadyExistsError is answered
\* 409), the file backend creates its temp file, and reader.read raises
\* AttributeError, which is not an OSError (the temp file stays) and not a
\* StorageError (the route answers 500).  Under @retry the object-storage
\* backend makes three such attempts.
HttpPutStore(t) ==
    /\ task[t].pc = "h_put_store"
    /\ LET k == task[t].key
           tmp == <<t, task[t].n>>
       IN  IF BackendExists(k)
           THEN Finish(t, "409", 0, <<>>) /\ UNCHANGED work
           ELSE IF storage_backend = "file"
           THEN /\ work' = IF HasNul(_get_package_path(k)) THEN work
                           ELSE MapPut(work, tmp, <<>>)
                /\ Finish(t, "500", 0, <<>>)
           ELSE /\ work' = work
                /\ IF task[t].attempt < MaxAttempts
                   THEN Goto(t, [task[t] EXCEPT !.attempt = @ + 1])
                   ELSE Finish(t, "500", 0, <<>>)
    /\ UNCHANGED <<conf, files, dirs, objects, faults>>

(***************************************************************************)
(* The service: a backend chosen by configuration, an empty store, and     *)
(* request tasks that run concurrently.                                    *)
(***************************************************************************)
\* a workload: the operations and payloads the clients use; t1 issues a
\* operations on the keys k1 and t2 issues b on the keys k2; f substrate
\* failures may be injected
Workload(ops, k1, k2, pays, a, b, f) ==
    [ops |-> ops, pays |-> pays,
     keys |-> [t \in Tasks |-> IF t = "t1" THEN k1 ELSE k2],
     quota |-> [t \in Tasks |-> IF t = "t1" THEN a ELSE b], faults |-> f,
     read_only |-> FALSE, write_only |-> FALSE, flaky |-> {}]

\* the workload w with failures injected only into the substrate calls made
\* at the positions pcs
Flaky(w, pcs) == [w EXCEPT !.flaky = pcs]

\* the workload w served with settings.server.read_only = ro and
\* settings.server.write_only = wo
Mode(w, ro, wo) == [w EXCEPT !.read_only = ro, !.write_only = wo]

SmallPayloads == {<<1>>, <<1, 2, 3>>}

\* one client, two keys whose locations touch
WTouching == Workload(Ops, {KA, KM}, {}, {<<1, 2, 3>>}, MaxOps, 0, 0)
\* one client, a digest with a dot in it
WDotted == Workload(Ops, {KA, KX}, {}, {<<1, 2, 3>>}, MaxOps - 1, 0, 0)
\* one client, one key, every payload size, a flaky substrate
WFlaky == Workload(Ops, {KA}, {}, Payloads, MaxOps - 1, 0, MaxFaults)
\* one client, several names and versions
WListing == Workload(Ops, {KA, KV, KO}, {}, {<<1>>}, MaxOps - 1, 0, 0)
\* one client, malformed keys
WMalformed ==
    Workload(Ops, {KA} \cup InvalidKeys, {}, {<<1>>}, MaxOps - 2, 0, 0)
\* two clients at once on one key
WSameKey ==
    Workload({"put", "get", "delete"}, {KA}, {KA}, SmallPayloads,
             MaxOps - 2, MaxOps - 2, 0)
\* two clients at once, each on a key of its own
WDistinctKeys ==
    Workload({"put", "get"}, {KA}, {KM}, SmallPayloads,
             MaxOps - 2, MaxOps - 2, 0)

\* test_client_retries: one client, only the upload of the payload fails,
\* fewer times than put is attempted
WRetry ==
    Flaky(Workload({"put", "exists"}, {KA}, {}, SmallPayloads, MaxOps - 2, 0,
                   MaxAttempts - 1),
          {"m_put_upload"})
\* one client storing a package through the backend and using the routes
WHttp ==
    Workload({"put", "delete"} \cup HttpOps, {KA}, {}, SmallPayloads,
             MaxOps - 1, 0, 0)
\* the same client against a server in read-only mode, in write-only mode,
\* and in both
WReadOnly == Mode(WHttp, TRUE, FALSE)
WWriteOnly == Mode(WHttp, FALSE, TRUE)
WReadWriteOnly == Mode(WHttp, TRUE, TRUE)

\* two clients at once on one key, each storing and then reading it or its
\* metadata
WRace ==
    Workload({"put", "get", "get_metadata"}, {KA}, {KA}, SmallPayloads,
             MaxOps - 2, MaxOps - 2, 0)

\* one client storing two keys whose locations touch while another reads
\* the second key
WCrash ==
    Workload({"put", "get", "get_metadata"}, {KM, KA}, {KA}, {<<1, 2, 3>>},
             MaxOps - 2, MaxOps - 3, 0)

\* one client, one put; only the existence check of put fails, as often as
\* one call of exists attempts it
WStat ==
    Flaky(Workload({"put"}, {KA}, {}, {<<1>>}, MaxOps - 3, 0, MaxAttempts),
          {"put"})

\* two clients at once on two keys of one name and version: one stores and
\* deletes its key while the other stores its own
WPrune ==
    Workload({"put", "delete"}, {KA}, {KB}, {<<1>>}, MaxOps - 2, MaxOps - 3, 0)

\* two clients at once on one key: one stores it and then asks whether it
\* is there, the other deletes it
WPresence ==
    Workload({"put", "delete", "exists", "get_metadata"}, {KA}, {KA}, {<<1>>},
             MaxOps - 1, MaxOps - 3, 0)

\* two clients at once: one stores a key, the other cleans up
WCleanup ==
    Workload({"put", "cleanup"}, {KA}, {KA}, {<<1>>}, MaxOps - 2, MaxOps - 3, 0)

\* two instances of the service starting at once on a store that may fail
WInit ==
    Workload({"initialize"}, {KA}, {KA}, {<<1>>}, MaxOps - 2, MaxOps - 2,
             MaxFaults)

Workloads ==
    {WTouching, WDotted, WFlaky, WListing, WMalformed, WSameKey, WDistinctKeys,
     WRetry, WHttp, WReadOnly, WWriteOnly, WReadWriteOnly, WRace, WCrash, WStat,
     WPrune, WPresence, WCleanup, WInit}

InitWith(w) ==
    /\ backend \in {"file", "minio"}
    /\ sc = w
    /\ files = <<>>
    /\ dirs = {}
    /\ work = <<>>
    /\ objects = <<>>
    /\ bucket \in (IF w.ops = {"initialize"} THEN BOOLEAN ELSE {TRUE})
    /\ faults = w.faults
    /\ task = [t \in Tasks |-> Idle(0)]
    /\ hist = <<>>

Init == \E w \in Workloads : InitWith(w)

Next ==
    \E t \in Tasks :
        \/ Begin(t)
        \/ FilePut(t) \/ FilePutMkdir(t) \/ FilePutMove(t) \/ FilePutMeta(t)
        \/ FileGet(t) \/ FileGetOpen(t)
        \/ FileExists(t)
        \/ FileDelete(t) \/ FileDeleteUnlink(t) \/ FileDeleteMeta(t)
        \/ FileDeleteRmdir(t)
        \/ FileGetMetadata(t) \/ FileGetMetadataLoad(t)
        \/ FileListVersions(t) \/ FileListAllVersions(t)
        \/ FileCleanup(t)
        \/ FileInitialize(t)
        \/ MinioPut(t) \/ MinioPutUpload(t) \/ MinioPutMeta(t)
        \/ MinioGet(t)
        \/ MinioExists(t)
        \/ MinioDelete(t) \/ MinioDeleteMeta(t)
        \/ MinioGetMetadata(t) \/ MinioGetMetadataStat(t)
        \/ MinioListVersions(t) \/ MinioListAllVersions(t)
        \/ MinioCleanup(t)
        \/ MinioInitialize(t) \/ MinioInitializeMake(t)
        \/ HttpHead(t)
        \/ HttpGet(t) \/ HttpGetStream(t)
        \/ HttpPut(t) \/ HttpPutStore(t)

Spec == Init /\ [][Next]_vars

(***************************************************************************)
(* Reading the history.                                                    *)
(***************************************************************************)
Finished == 1..Len(hist)

\* the finished call i had returned when the finished call j began
Before(i, j) == i <= hist[j].start

\* the finished call i is a successful op on k
Ok(i, op, k) == hist[i].op = op /\ hist[i].key = k /\ hist[i].status = "ok"

\* some call of op on k, whatever its outcome, was running or began after
\* the finished call i began and before the finished call j returned
CalledBetween(op, k, i, j) ==
    \/ \E d \in Finished : /\ hist[d].op = op /\ hist[d].key = k
                            /\ d > hist[i].start /\ hist[d].start < j
    \/ \E t \in Tasks : /\ task[t].pc # "idle" /\ task[t].op = op
                         /\ task[t].key = k /\ task[t].start < j

\* no substrate failure has been injected so far
NoFault == faults = sc.faults

(***************************************************************************)
(* C1  Round trip: a put(K, P) that returns successfully returns len(P),   *)
(* and every get(K) that follows it with no delete(K) in between does not  *)
(* miss the key and writes exactly the bytes of P into its sink.           *)
(***************************************************************************)
C1_RoundTrip ==
    \A i \in Finished :
        (hist[i].op = "put" /\ hist[i].status = "ok" /\ hist[i].key \in ValidKeys) =>
            /\ hist[i].ret = Len(hist[i].data)
            /\ \A j \in Finished :
                  ( /\ hist[j].op = "get" /\ hist[j].key = hist[i].key
                    /\ Before(i, j)
                    /\ ~CalledBetween("delete", hist[i].key, i, j)
                    /\ hist[j].status \in {"ok", "NotFound"} ) =>
                        hist[j].status = "ok" /\ hist[j].sink = hist[i].data

(***************************************************************************)
(* C2  Write once: after a successful put(K, P) and before any delete(K),  *)
(* every further put(K, Q) fails with AlreadyExists and every get(K) that  *)
(* succeeds still returns exactly P.                                       *)
(***************************************************************************)
C2_WriteOnce ==
    \A i \in Finished :
        (hist[i].op = "put" /\ hist[i].status = "ok" /\ hist[i].key \in ValidKeys) =>
            \A j \in Finished :
                ( /\ hist[j].key = hist[i].key /\ Before(i, j)
                  /\ ~CalledBetween("delete", hist[i].key, i, j) ) =>
                    /\ hist[j].op = "put" => hist[j].status = "AlreadyExists"
                    /\ Ok(j, "get", hist[i].key) => hist[j].sink = hist[i].data

(***************************************************************************)
(* C3  An existing artifact is never mutated: once a put(K) has returned   *)
(* successfully, any two successful get(K) that follow it, with no         *)
(* delete(K) since the put, return the same bytes, whatever other puts on  *)
(* K were in progress.  Stated for runs without substrate failures.        *)
(***************************************************************************)
C3_NeverMutates ==
    NoFault =>
    \A i \in Finished :
        (hist[i].op = "put" /\ hist[i].status = "ok" /\ hist[i].key \in ValidKeys) =>
            \A j1 \in Finished, j2 \in Finished :
                ( /\ Ok(j1, "get", hist[i].key) /\ Ok(j2, "get", hist[i].key)
                  /\ Before(i, j1) /\ j1 < j2
                  /\ ~CalledBetween("delete", hist[i].key, i, j2) ) =>
                    hist[j1].sink = hist[j2].sink

\* every key the workload uses
AllKeys == UNION {sc.keys[t] : t \in Tasks}

\* the payloads of the put(k) calls made so far, finished or not
PutSources(k) ==
    {hist[i].data : i \in {j \in Finished : hist[j].op = "put" /\ hist[j].key = k}}
    \cup {task[t].data : t \in {u \in Tasks : /\ task[u].pc # "idle"
                                               /\ task[u].op = "put"
                                               /\ task[u].key = k}}

\* what a reader finds at the canonical location of k
Visible(k) ==
    IF IsFileBackend
    THEN IF IsFile(_get_package_path(k)) THEN {files[_get_package_path(k)]} ELSE {}
    ELSE IF _get_object_name(k) \in DOMAIN objects
         THEN {objects[_get_object_name(k)]} ELSE {}

(***************************************************************************)
(* C4  No partially written artifact is visible: in every reachable state  *)
(* the content at the canonical location of a valid key is absent or is    *)
(* the complete payload of one put on that key; so after two racing puts   *)
(* the key holds one of the two payloads.                                  *)
(***************************************************************************)
C4_NoPartial ==
    \A k \in AllKeys \cap ValidKeys : Visible(k) \subseteq PutSources(k)

\* no put(k) call is running and none returned after the first n calls
NoPutAfter(k, n) ==
    /\ \A i \in Finished : (hist[i].op = "put" /\ hist[i].key = k) => i <= n
    /\ \A t \in Tasks :
          ~(task[t].pc # "idle" /\ task[t].op = "put" /\ task[t].key = k)

\* k was never written, or a delete(k) succeeded before the running call of
\* t began and k was not written since
AbsentFor(t, k) ==
    \/ NoPutAfter(k, 0)
    \/ \E d \in Finished : /\ Ok(d, "delete", k) /\ d <= task[t].start
                            /\ NoPutAfter(k, hist[d].start)

\* the task t takes a step of its running call / returns from it
Steps(t) == task[t].pc # "idle" /\ task'[t] # task[t]
Returns(t) == Steps(t) /\ task'[t].pc = "idle"

(***************************************************************************)
(* C5  Not-found symmetry: get, delete and get_metadata on a valid key     *)
(* that was never written, or was deleted and not written since, change    *)
(* nothing in storage and fail with NotFound.  (No backend has a head      *)
(* operation.)  Stated for runs without substrate failures.                *)
(***************************************************************************)
C5_NotFound ==
    [][\A t \in Tasks :
          ( /\ Steps(t)
            /\ task[t].op \in {"get", "delete", "get_metadata"}
            /\ task[t].key \in ValidKeys
            /\ AbsentFor(t, task[t].key)
            /\ faults' = sc.faults ) =>
                /\ store' = store
                /\ Returns(t) => hist'[Len(hist')].status = "NotFound"]_vars

(***************************************************************************)
(* C6  Validation rejects: get, put, exists, delete and get_metadata on a  *)
(* key with an empty field, a field containing "..", a field containing a  *)
(* null byte or a digest shorter than 8 characters change nothing in       *)
(* storage and fail with the validation error.                             *)
(***************************************************************************)
C6_ValidationRejects ==
    [][\A t \in Tasks :
          ( /\ Steps(t)
            /\ task[t].op \in {"get", "put", "exists", "delete", "get_metadata"}
            /\ task[t].key \in InvalidKeys ) =>
                /\ store' = store
                /\ Returns(t) => hist'[Len(hist')].status = "ValueError"]_vars

\* the outcomes of a call that a failing substrate accounts for
SubstrateErrors ==
    {"StorageError", "StorageReadError", "StorageWriteError", "MinioStorageError"}

(***************************************************************************)
(* C7  Delete then absence: after a successful delete(K) and until K is    *)
(* put again, exists(K) answers false and a further delete(K) fails with   *)
(* NotFound.                                                               *)
(***************************************************************************)
C7_DeleteThenAbsent ==
    \A d \in Finished :
        (hist[d].op = "delete" /\ hist[d].status = "ok" /\ hist[d].key \in ValidKeys) =>
            \A j \in Finished :
                ( /\ hist[j].key = hist[d].key /\ Before(d, j)
                  /\ ~CalledBetween("put", hist[d].key, d, j)
                  /\ hist[j].status \notin SubstrateErrors ) =>
                    /\ hist[j].op = "exists" =>
                          hist[j].status = "ok" /\ hist[j].ret = FALSE
                    /\ hist[j].op = "delete" => hist[j].status = "NotFound"

(***************************************************************************)
(* C8  Metadata consistency: after a successful put(K, P) and with no      *)
(* delete(K) since, get_metadata(K) finds the record and the record has    *)
(* the name, version and digest of K, the size len(P) and the content      *)
(* type application/octet-stream.                                          *)
(***************************************************************************)
C8_MetadataConsistent ==
    \A i \in Finished :
        (hist[i].op = "put" /\ hist[i].status = "ok" /\ hist[i].key \in ValidKeys) =>
            \A j \in Finished :
                ( /\ hist[j].op = "get_metadata" /\ hist[j].key = hist[i].key
                  /\ Before(i, j)
                  /\ ~CalledBetween("delete", hist[i].key, i, j)
                  /\ hist[j].status \notin SubstrateErrors ) =>
                    /\ hist[j].status = "ok"
                    /\ hist[j].ret = PackageMetadata(hist[i].key.name,
                                                     hist[i].key.version,
                                                     hist[i].key.sha,
                                                     Len(hist[i].data))

\* the first n calls of a single client stored keys and removed none: every
\* put among them is on a valid key and either succeeded or found its key
\* stored, and none is a delete
OnlyStored(n) ==
    /\ sc.quota["t2"] = 0
    /\ \A i \in 1..n :
          /\ hist[i].op # "delete"
          /\ hist[i].op = "put" => /\ hist[i].key \in ValidKeys
                                    /\ hist[i].status \in {"ok", "AlreadyExists"}

\* the keys the first n calls stored
Stored(n) == {hist[i].key : i \in {j \in 1..n : hist[j].op = "put" /\ hist[j].status = "ok"}}

(***************************************************************************)
(* C9  Listing: after a set S of keys has been stored, the key listing of  *)
(* (name, version) returns one identifier per key of S with that name and  *)
(* version, carrying its digest, and the version listing of a name returns *)
(* the versions of the keys of S with that name; nothing else appears.     *)
(***************************************************************************)
C9_Listing ==
    \A l \in Finished :
        (OnlyStored(l - 1) /\ hist[l].status \notin SubstrateErrors) =>
            LET k == hist[l].key
                S == Stored(l - 1)
                digests == {x.sha : x \in {y \in S : y.name = k.name
                                                    /\ y.version = k.version}}
                versions == {x.version : x \in {y \in S : y.name = k.name}}
            IN  /\ hist[l].op = "list_versions" =>
                      /\ hist[l].status = "ok"
                      /\ hist[l].ret = [shas |-> digests, n |-> Cardinality(digests)]
                /\ hist[l].op = "list_all_versions" =>
                      hist[l].status = "ok" /\ hist[l].ret = versions

\* the finished calls of task t, in order
Mine(t) == SelectSeq(hist, LAMBDA e : e.t = t)

\* so far task t has done nothing but put(K, P) followed by get(K)
Cycle(t) ==
    LET m == Mine(t)
        running == task[t].pc # "idle"
    IN  /\ Len(m) <= 2
        /\ Len(m) >= 1 => m[1].op = "put" /\ m[1].key \in ValidKeys
        /\ Len(m) = 2 => m[2].op = "get" /\ m[2].key = m[1].key
        /\ running /\ Len(m) = 0 => task[t].op = "put" /\ task[t].key \in ValidKeys
        /\ running /\ Len(m) = 1 => task[t].op = "get" /\ task[t].key = m[1].key
        /\ ~(running /\ Len(m) = 2)

\* the keys task t has used
KeysOf(t) ==
    {hist[i].key : i \in {j \in Finished : hist[j].t = t}}
    \cup (IF task[t].pc # "idle" THEN {task[t].key} ELSE {})

(***************************************************************************)
(* C10  Concurrent distinct keys: when every task does put(Ki, Pi) and     *)
(* then get(Ki) on a key of its own, the keys pairwise distinct and        *)
(* absent at the start, every put and every get succeeds and every get     *)
(* returns the payload its task put.  Stated for runs without substrate    *)
(* failures.                                                               *)
(***************************************************************************)
C10_DistinctKeys ==
    ( /\ NoFault
      /\ \A t \in Tasks : Cycle(t)
      /\ \A t \in Tasks, u \in Tasks : t # u => KeysOf(t) \cap KeysOf(u) = {} ) =>
        \A t \in Tasks :
            /\ \A i \in 1..Len(Mine(t)) : Mine(t)[i].status = "ok"
            /\ Len(Mine(t)) = 2 => Mine(t)[2].sink = Mine(t)[1].data

\* the locations the configured backend derives for k: payload and sidecar
Locations(k) ==
    IF IsFileBackend
    THEN {_get_package_path(k), _get_metadata_path(_get_package_path(k))}
    ELSE {_get_object_name(k), _get_metadata_name(k)}

\* the finished calls i < j are two readings of one valid key by the same
\* operation, and every call between them is a put or a delete on another
\* valid key
FramedPair(i, j) ==
    /\ i < j
    /\ hist[i].op \in {"exists", "get", "get_metadata"}
    /\ hist[j].op = hist[i].op
    /\ hist[i].key \in ValidKeys
    /\ hist[j].key = hist[i].key
    /\ \A m \in (i + 1)..(j - 1) :
          /\ hist[m].op \in {"put", "delete"}
          /\ hist[m].key \in ValidKeys
          /\ hist[m].key # hist[i].key

(***************************************************************************)
(* C11  Operations on different keys do not interfere: two distinct valid  *)
(* keys have disjoint payload and sidecar locations, and a single client's *)
(* puts and deletes on other keys leave the results of exists, get and     *)
(* get_metadata of a key unchanged.  Stated for runs without substrate     *)
(* failures.                                                               *)
(***************************************************************************)
C11_NoInterference ==
    /\ \A k \in AllKeys \cap ValidKeys, m \in AllKeys \cap ValidKeys :
          k # m => Locations(k) \cap Locations(m) = {}
    /\ (sc.quota["t2"] = 0 /\ NoFault) =>
          \A i \in Finished, j \in Finished :
              FramedPair(i, j) =>
                  /\ hist[j].status = hist[i].status
                  /\ hist[j].ret = hist[i].ret
                  /\ hist[j].sink = hist[i].sink

\* when the finished call j began, k held the payload of the successful
\* put i: no delete of k was called in between
StoredBy(i, j, k) ==
    /\ Ok(i, "put", k)
    /\ Before(i, j)
    /\ ~CalledBetween("delete", k, i, j)

\* no call that finished before the call j wrote the key of j
NeverWritten(j) ==
    \A i \in 1..(j - 1) :
        hist[i].key = hist[j].key => hist[i].op \notin {"put", "http_put"}

(***************************************************************************)
(* C12  Head: with write-only mode off, a HEAD request for a stored valid  *)
(* key is answered 200 with the byte length of the key's payload as        *)
(* Content-Length, and a HEAD request for a key that was never written is  *)
(* answered 404 (the size query fails with NotFound).                      *)
(***************************************************************************)
C12_Head ==
    \A j \in Finished :
        ( /\ hist[j].op = "http_head"
          /\ hist[j].key \in ValidKeys
          /\ ~sc.write_only ) =>
            /\ \A i \in Finished :
                  StoredBy(i, j, hist[j].key) =>
                      /\ hist[j].status = "200"
                      /\ hist[j].ret = Len(hist[i].data)
            /\ NeverWritten(j) => hist[j].status = "404"

\* StorageError and its subclasses: AlreadyExistsError, NotFoundError,
\* StorageWriteError, StorageReadError (base.py) and MinioStorageError
StorageErrorFamily ==
    {"StorageError", "AlreadyExists", "NotFound", "StorageWriteError",
     "StorageReadError", "MinioStorageError"}

(***************************************************************************)
(* C13  Typed errors: every backend operation that fails raises a member   *)
(* of the storage-error family, whatever the key, the stored content and   *)
(* the substrate failures; validation failures included.  (A call that     *)
(* raises returns no value, so the second half of the claim needs no       *)
(* check.)                                                                 *)
(***************************************************************************)
C13_TypedErrors ==
    \A i \in Finished :
        (hist[i].op \in Ops /\ hist[i].status # "ok") =>
            hist[i].status \in StorageErrorFamily

(***************************************************************************)
(* C14  HTTP status mapping: with the modes off, a GET or a HEAD request   *)
(* for a valid key that was never written is answered 404, a PUT request   *)
(* for a stored key is answered 409, and a download that was begun with    *)
(* status 200 is sent to its end: no error turns up after the status line  *)
(* of a success response.                                                  *)
(***************************************************************************)
C14_StatusMapping ==
    \A j \in Finished :
        (hist[j].op \in HttpOps /\ hist[j].key \in ValidKeys) =>
            /\ ( /\ hist[j].op \in {"http_get", "http_head"}
                 /\ ~sc.write_only
                 /\ NeverWritten(j) ) => hist[j].status = "404"
            /\ ( /\ hist[j].op = "http_put"
                 /\ ~sc.read_only
                 /\ \E i \in Finished : StoredBy(i, j, hist[j].key) ) =>
                     hist[j].status = "409"
            /\ (hist[j].op = "http_get" /\ hist[j].status = "200") =>
                  hist[j].ret = TRUE

\* the scenario of test_client_retries on the object-storage backend: only
\* the upload of the payload fails, and fewer times than put is attempted
UploadFlaky ==
    /\ IsMinioBackend
    /\ sc.flaky = {"m_put_upload"}
    /\ sc.faults < MaxAttempts

(***************************************************************************)
(* C15  Retry recovers from transient failure: on the object-storage       *)
(* backend, when only the upload of the payload fails and it fails on the  *)
(* first one or two attempts of a put on a key not stored before, the put  *)
(* returns successfully and every exists(key) after it answers true.       *)
(***************************************************************************)
C15_RetryRecovers ==
    UploadFlaky =>
        \A i \in Finished :
            ( /\ hist[i].op = "put"
              /\ hist[i].key \in ValidKeys
              /\ \A h \in 1..(i - 1) : ~Ok(h, "put", hist[i].key) ) =>
                /\ hist[i].status = "ok"
                /\ \A j \in Finished :
                      ( /\ hist[j].op = "exists"
                        /\ hist[j].key = hist[i].key
                        /\ Before(i, j) ) =>
                          hist[j].status = "ok" /\ hist[j].ret = TRUE

\* a put that succeeded on its third attempt, and an exists after it
C15_Witness ==
    /\ UploadFlaky
    /\ \E i \in Finished, j \in Finished :
          /\ Ok(i, "put", KA)
          /\ hist[i].attempts = MaxAttempts
          /\ Ok(j, "exists", KA)
          /\ Before(i, j)
          /\ hist[j].ret = TRUE

\* what is published: the directory tree below the root and the bucket
published == <<files, dirs, objects>>

\* every call that finished after the call i and before the call j is a
\* cleanup, and there is one
OnlyCleanupBetween(i, j) ==
    /\ i + 1 < j
    /\ \A c \in (i + 1)..(j - 1) : hist[c].op = "cleanup"

\* the finished call j reads the valid key k
Reads(j, k) ==
    /\ hist[j].op \in {"exists", "get", "get_metadata"}
    /\ hist[j].key = k
    /\ k \in ValidKeys

\* a single client, cleanup after a successful put: what exists and get
\* answer after the cleanup, and that a reading after the cleanup equals the
\* reading before it
CleanupObserved ==
    (sc.quota["t2"] = 0 /\ NoFault) =>
        \A i \in Finished, j \in Finished :
            (Reads(j, hist[i].key) /\ OnlyCleanupBetween(i, j)) =>
                /\ (hist[i].op = "put" /\ hist[i].status = "ok") =>
                      /\ hist[j].status = "ok"
                      /\ hist[j].op = "exists" => hist[j].ret = TRUE
                      /\ hist[j].op = "get" => hist[j].sink = hist[i].data
                /\ hist[i].op = hist[j].op =>
                      /\ hist[j].status = hist[i].status
                      /\ hist[j].ret = hist[i].ret
                      /\ hist[j].sink = hist[i].sink

ModesObserved ==
    \A j \in Finished :
        (hist[j].op \in HttpOps /\ hist[j].key \in ValidKeys) =>
            /\ (sc.read_only /\ hist[j].op = "http_put") =>
                  hist[j].status = "405"
            /\ (sc.write_only /\ hist[j].op \in {"http_get", "http_head"}) =>
                  hist[j].status = "405"
            /\ (~sc.read_only /\ hist[j].op = "http_put" /\ NeverWritten(j)) =>
                  hist[j].status = "200" /\ hist[j].ret = Len(hist[j].data)
            /\ (~sc.write_only /\ hist[j].op = "http_get") =>
                  \A i \in Finished :
                      StoredBy(i, j, hist[j].key) =>
                          /\ hist[j].status = "200"
                          /\ hist[j].ret = TRUE
                          /\ hist[j].sink = hist[i].data

(***************************************************************************)
(* C17  Read-only and write-only modes: in read-only mode every PUT of a   *)
(* package is answered 405 and no step of it changes storage; in           *)
(* write-only mode every GET and HEAD is answered 405; with the mode off   *)
(* the first upload of a key is answered 200 with its size and the         *)
(* download of a stored package is answered 200 with its bytes.            *)
(***************************************************************************)
C17_Modes ==
    /\ [][\A t \in Tasks :
             (sc.read_only /\ task[t].op = "http_put" /\ Steps(t)) =>
                 store' = store]_vars
    /\ []ModesObserved

\* nothing is stored at the sidecar location of k
SidecarAbsent(k) ==
    IF IsFileBackend
    THEN ~PathExists(_get_metadata_path(_get_package_path(k)))
    ELSE _get_metadata_name(k) \notin DOMAIN objects

\* the record synthesized for k from a payload
Synthesized(k, payload) ==
    PackageMetadata(k.name, k.version, k.sha, Len(payload))

(***************************************************************************)
(* C18  Degraded metadata read: on both backends, a get_metadata(K) that   *)
(* returns while the payload of the valid key K is stored, nothing is      *)
(* stored at K's sidecar location and the substrate does not fail, returns *)
(* successfully the record with K's name, version and digest and the       *)
(* payload's byte length as size.                                          *)
(***************************************************************************)
C18_DegradedMetadata ==
    [][\A t \in Tasks :
          ( /\ task[t].op = "get_metadata"
            /\ Returns(t)
            /\ task[t].key \in ValidKeys
            /\ Visible(task[t].key) # {}
            /\ SidecarAbsent(task[t].key)
            /\ faults' = faults ) =>
                /\ hist'[Len(hist')].status = "ok"
                /\ \A payload \in Visible(task[t].key) :
                      hist'[Len(hist')].ret = Synthesized(task[t].key, payload)]_vars

\* the last call was a get_metadata of KA, whose non-empty payload is
\* stored without a sidecar, and it returned the synthesized record
C18_Witness ==
    /\ Len(hist) > 0
    /\ Ok(Len(hist), "get_metadata", KA)
    /\ SidecarAbsent(KA)
    /\ \E payload \in Visible(KA) :
          /\ payload # <<>>
          /\ hist[Len(hist)].ret = Synthesized(KA, payload)

(***************************************************************************)
(* C19  HTTP download completes: with write-only mode off, a GET request   *)
(* for a stored package of any size, once it has finished, was answered    *)
(* 200 and its body was sent to the end and equals the uploaded bytes.     *)
(***************************************************************************)
C19_DownloadCompletes ==
    \A i \in Finished, j \in Finished :
        ( /\ hist[j].op = "http_get"
          /\ ~sc.write_only
          /\ hist[j].key \in ValidKeys
          /\ StoredBy(i, j, hist[j].key) ) =>
            /\ hist[j].status = "200"
            /\ hist[j].ret = TRUE
            /\ hist[j].sink = hist[i].data

(***************************************************************************)
(* C20  Get racing delete: on the filesystem backend and without substrate *)
(* failures, a get(K) during which a delete(K) was running either succeeds *)
(* with the complete payload of a put on K in its sink or fails with       *)
(* NotFound.                                                               *)
(***************************************************************************)
C20_GetRacingDelete ==
    (IsFileBackend /\ NoFault) =>
        \A j \in Finished :
            ( /\ hist[j].op = "get"
              /\ hist[j].key \in ValidKeys
              /\ CalledBetween("delete", hist[j].key, j, j) ) =>
                /\ hist[j].status \in {"ok", "NotFound"}
                /\ hist[j].status = "ok" => hist[j].sink \in PutSources(hist[j].key)
(***************************************************************************)
(* C21  A retried put stores the whole source: on the object-storage       *)
(* backend, when only the upload of the payload fails (so that every       *)
(* failed attempt had read the source), a put that succeeds on its second  *)
(* or third attempt returns the length of the complete source, and when it *)
(* returns the payload stored under its key is the complete source.        *)
(***************************************************************************)
C21_RetriedPutWhole ==
    UploadFlaky =>
        \A i \in Finished :
            ( /\ hist[i].op = "put" /\ hist[i].status = "ok"
              /\ hist[i].key \in ValidKeys
              /\ hist[i].attempts > 1 ) =>
                /\ hist[i].ret = Len(hist[i].data)
                /\ i = Len(hist) => Visible(hist[i].key) = {hist[i].data}
\* the finished calls i < j are two successful puts on k of payloads of
\* different lengths, the second begun before the first had returned
RacedPuts(i, j, k) ==
    /\ i < j
    /\ Ok(i, "put", k) /\ Ok(j, "put", k)
    /\ ~Before(i, j)
    /\ Len(hist[i].data) # Len(hist[j].data)

(***************************************************************************)
(* C22  Sidecar agrees with payload after a same-key race: after two puts  *)
(* on one key with payloads of different lengths have both passed the      *)
(* existence check and returned successfully, a get_metadata and a get of  *)
(* the key that begin afterwards both succeed and the size of the record   *)
(* equals the number of bytes the get wrote.  Stated for runs without      *)
(* substrate failures and without a delete.                                *)
(***************************************************************************)
C22_SidecarAgrees ==
    (NoFault /\ "delete" \notin sc.ops) =>
        \A i \in Finished, j \in Finished, g \in Finished, r \in Finished :
            ( /\ hist[j].key \in ValidKeys
              /\ RacedPuts(i, j, hist[j].key)
              /\ hist[g].op = "get_metadata" /\ hist[g].key = hist[j].key
              /\ hist[r].op = "get" /\ hist[r].key = hist[j].key
              /\ Before(j, g) /\ Before(j, r) ) =>
                /\ hist[g].status = "ok" /\ hist[r].status = "ok"
                /\ hist[g].ret.size = Len(hist[r].sink)
\* the positions of put between the publish and the sidecar write
PutMetaPcs == {"f_put_meta", "m_put_meta"}

\* the step writes the sidecar of k: afterwards something is stored at k's
\* sidecar location that was not there before
SidecarWritten(k) ==
    IF IsFileBackend
    THEN LET mp == _get_metadata_path(_get_package_path(k))
         IN  /\ mp \in DOMAIN files'
             /\ mp \in DOMAIN files => files'[mp] # files[mp]
    ELSE LET name == _get_metadata_name(k)
         IN  /\ name \in DOMAIN objects'
             /\ name \in DOMAIN objects => objects'[name] # objects[name]

\* after the step a payload is stored at the final location of k
PublishedAfter(k) ==
    IF IsFileBackend THEN _get_package_path(k) \in DOMAIN files'
    ELSE _get_object_name(k) \in DOMAIN objects'

\* the task t is a put on the valid key k that has published its payload
\* and not yet written its sidecar; no other put on k was ever called and
\* no delete of k since this put began
StoppedBeforeSidecar(t, k) ==
    /\ task[t].op = "put" /\ task[t].key = k /\ k \in ValidKeys
    /\ task[t].pc \in PutMetaPcs
    /\ \A i \in Finished :
          /\ ~(hist[i].op = "put" /\ hist[i].key = k)
          /\ (hist[i].op = "delete" /\ hist[i].key = k) => i <= task[t].start
    /\ \A u \in Tasks \ {t} :
          ~(task[u].op \in {"put", "delete"} /\ task[u].key = k)

\* one step of a task, as the publish-before-sidecar rule wants it
PublishBeforeSidecarStep ==
    \A t \in Tasks :
        /\ ( /\ task[t].op = "put" /\ Steps(t)
             /\ task[t].key \in ValidKeys ) =>
               /\ SidecarWritten(task[t].key) => task[t].pc \in PutMetaPcs
               /\ (task[t].pc \notin PutMetaPcs /\ task'[t].pc \in PutMetaPcs) =>
                     PublishedAfter(task[t].key)
        /\ \A u \in Tasks \ {t} :
              ( /\ StoppedBeforeSidecar(t, task[t].key)
                /\ Returns(u) /\ task[u].key = task[t].key
                /\ faults' = faults ) =>
                  /\ task[u].op = "get" =>
                        /\ hist'[Len(hist')].status = "ok"
                        /\ hist'[Len(hist')].sink = task[t].data
                  /\ task[u].op = "get_metadata" =>
                        /\ hist'[Len(hist')].status = "ok"
                        /\ hist'[Len(hist')].ret =
                              Synthesized(task[t].key, task[t].data)

(***************************************************************************)
(* C23  Publish before sidecar: a step of put(K) changes what is stored at *)
(* K's sidecar location only from the position after the publish, and the  *)
(* step that reaches this position leaves K's payload at its final         *)
(* location; while the only put ever called on K stands between the        *)
(* publish and the sidecar write, a get(K) that returns succeeds with the  *)
(* complete payload and a get_metadata(K) that returns succeeds with the   *)
(* record synthesized from it.  The reads are stated for steps in which    *)
(* the substrate does not fail.                                            *)
(***************************************************************************)
C23_PublishBeforeSidecar == [][PublishBeforeSidecarStep]_vars

\* the task t is inside a put, called directly or by the upload route
InPut(t) == task[t].pc # "idle" /\ task[t].op \in {"put", "http_put"}

\* every temp file of work_dir is the temp file of a put that is running
NoStagingLeftovers ==
    \A tmp \in DOMAIN work : \E t \in Tasks : InPut(t) /\ tmp = <<t, task[t].n>>

\* a step of a put on k that changes what the final path of k holds leaves
\* the complete source there
NoPartialPublish ==
    \A t \in Tasks :
        (InPut(t) /\ Steps(t) /\ task[t].key \in ValidKeys) =>
            LET final == _get_package_path(task[t].key)
            IN  ( /\ final \in DOMAIN files'
                  /\ final \in DOMAIN files => files'[final] # files[final] ) =>
                    files'[final] = task[t].data

(***************************************************************************)
(* C24  No staging leftovers: on the filesystem backend, once a put has    *)
(* returned or raised, whatever the step that failed and whatever the      *)
(* exception, no temp file it created remains in the working directory,    *)
(* and no step of a put leaves anything but the complete source at the     *)
(* final path.                                                             *)
(***************************************************************************)
C24_NoStagingLeftovers ==
    /\ [](IsFileBackend => NoStagingLeftovers)
    /\ [][IsFileBackend => NoPartialPublish]_vars

\* the finished call i is a put on a valid key that failed with an error
\* other than AlreadyExists, the finished call j is a later call on the same
\* key, and no put on the key finished between them
AfterFailedPut(i, j) ==
    /\ i < j
    /\ hist[i].op = "put" /\ hist[i].key \in ValidKeys
    /\ hist[i].status \notin {"ok", "AlreadyExists"}
    /\ hist[j].key = hist[i].key
    /\ \A d \in (i + 1)..(j - 1) :
          ~(hist[d].op = "put" /\ hist[d].key = hist[i].key)

(***************************************************************************)
(* C25  A failed put leaves the key absent: with a single client, after a  *)
(* put(K, P) has failed with an error other than AlreadyExists, whatever   *)
(* the step that failed (the sidecar write after the publish included),    *)
(* an exists(K) that answers answers false, and the next put on K does not *)
(* fail with AlreadyExists.                                                *)
(***************************************************************************)
C25_FailedPutAbsent ==
    sc.quota["t2"] = 0 =>
        \A i \in Finished, j \in Finished :
            AfterFailedPut(i, j) =>
                /\ (hist[j].op = "exists" /\ hist[j].status = "ok") =>
                      hist[j].ret = FALSE
                /\ hist[j].op = "put" => hist[j].status # "AlreadyExists"

(***************************************************************************)
(* C26  AlreadyExists does not consume the source: on either backend, a    *)
(* put on a valid key that finds the key's payload stored at its existence *)
(* check reads nothing from the source, creates no staging file and no     *)
(* object, and stays at the check (to be attempted again) or ends the      *)
(* call; when it ends the call in a step without a substrate failure it    *)
(* ends it with AlreadyExists.                                             *)
(***************************************************************************)
C26_AlreadyExistsReadsNothing ==
    [][\A t \in Tasks :
          ( /\ task[t].op = "put" /\ Steps(t)
            /\ task[t].key \in ValidKeys
            /\ task[t].pc = "put"
            /\ Visible(task[t].key) # {} ) =>
                /\ store' = store
                /\ ~Returns(t) =>
                      /\ task'[t].pc = "put"
                      /\ task'[t].rpos = task[t].rpos
                /\ (Returns(t) /\ faults' = faults) =>
                      hist'[Len(hist')].status = "AlreadyExists"]_vars

\* a put of a non-empty payload on a key that holds another payload has
\* failed with AlreadyExists, and the key still holds what it held
C26_Witness ==
    \E i \in Finished, j \in Finished :
        /\ Ok(i, "put", KA) /\ Before(i, j)
        /\ hist[j].op = "put" /\ hist[j].key = KA
        /\ hist[j].status = "AlreadyExists"
        /\ hist[j].data # <<>> /\ hist[j].data # hist[i].data
        /\ Visible(KA) = {hist[i].data}
        /\ work = <<>>

\* the errors the retry policy must not retry: the key is absent, the key is
\* malformed, the key is occupied
TerminalErrors == {"NotFound", "ValueError", "AlreadyExists"}

(***************************************************************************)
(* C27  Terminal errors are never retried: on the object-storage backend,  *)
(* in a run without substrate failures, a call that ends in NotFound, in a *)
(* validation error or in AlreadyExists has made exactly one attempt.      *)
(***************************************************************************)
C27_TerminalNotRetried ==
    (IsMinioBackend /\ NoFault) =>
        \A i \in Finished :
            (hist[i].op \in Ops /\ hist[i].status \in TerminalErrors) =>
                hist[i].attempts = 1

(***************************************************************************)
(* C28  Bounded retry: on the object-storage backend no call makes more    *)
(* than 3 attempts, however often the substrate fails, and within one call *)
(* no substrate primitive is invoked more than 3 times for one step; the   *)
(* stat_object of put's existence check is counted over the whole call.    *)
(***************************************************************************)
C28_BoundedRetry ==
    IsMinioBackend =>
        /\ \A t \in Tasks :
              /\ task[t].attempt <= MaxAttempts
              /\ task[t].inner <= MaxAttempts
              /\ task[t].calls <= MaxAttempts
        /\ \A i \in Finished : hist[i].attempts <= MaxAttempts

(***************************************************************************)
(* C29  A retried get delivers the payload once: on the object-storage     *)
(* backend, with a single client, when a get(K, sink) has just returned    *)
(* successfully the sink holds exactly the payload stored under K,         *)
(* whatever the earlier attempts of the call wrote before they failed.     *)
(***************************************************************************)
C29_GetDeliversOnce ==
    (IsMinioBackend /\ sc.quota["t2"] = 0) =>
        \A i \in Finished :
            ( /\ hist[i].op = "get" /\ hist[i].status = "ok"
              /\ hist[i].key \in ValidKeys
              /\ i = Len(hist) ) =>
                Visible(hist[i].key) = {hist[i].sink}

(***************************************************************************)
(* C30  AlreadyExists means someone else stored it: on either backend, a   *)
(* put call that fails with AlreadyExists has not itself published a       *)
(* payload in an earlier attempt.                                          *)
(***************************************************************************)
C30_AlreadyExistsIsForeign ==
    [][\A t \in Tasks :
          ( /\ task[t].op = "put" /\ Returns(t)
            /\ task[t].key \in ValidKeys
            /\ hist'[Len(hist')].status = "AlreadyExists" ) =>
                ~task[t].pub]_vars

\* while the finished call j ran, a delete of another key with the name of
\* j's key was called
DeleteRaced(j) ==
    \E k \in AllKeys \cap ValidKeys :
        /\ k # hist[j].key /\ k.name = hist[j].key.name
        /\ CalledBetween("delete", k, j, j)

\* no step removes a directory above the final path of a put that has
\* created its parent directories and not yet moved its payload there
PutDirsKept ==
    \A u \in Tasks :
        (task[u].op = "put" /\ task[u].pc = "f_put_move") =>
            \A d \in Ancestors(Parent(_get_package_path(task[u].key))) :
                d \in dirs => d \in dirs'

(***************************************************************************)
(* C31  Delete of one key does not break a put of another: on the          *)
(* filesystem backend and without substrate failures, a put(K') during     *)
(* which a delete of another key of the same name was called does not      *)
(* fail (it succeeds or finds K' stored), and no step removes a directory  *)
(* that a put has created for its publish step and not yet used.           *)
(***************************************************************************)
C31_DeleteSparesPut ==
    /\ []((IsFileBackend /\ NoFault) =>
            \A j \in Finished :
                ( /\ hist[j].op = "put" /\ hist[j].key \in ValidKeys
                  /\ DeleteRaced(j) ) =>
                    hist[j].status \in {"ok", "AlreadyExists"})
    /\ [][IsFileBackend => PutDirsKept]_vars

\* no put on k finished after the call d and before the call j
NoPutBetween(k, d, j) ==
    \A m \in (d + 1)..(j - 1) : ~(hist[m].op = "put" /\ hist[m].key = k)

(***************************************************************************)
(* C32  Delete removes payload and metadata: with a single client on       *)
(* either backend, when a delete(K) has just returned successfully neither *)
(* K's payload nor anything at K's sidecar location remains; a             *)
(* get_metadata(K) after it, before K is put again, fails with NotFound    *)
(* unless the substrate fails; and after a later successful put(K, Q) a    *)
(* get_metadata(K) that succeeds reports the size len(Q).                  *)
(***************************************************************************)
C32_DeleteRemovesBoth ==
    sc.quota["t2"] = 0 =>
        \A d \in Finished :
            (Ok(d, "delete", hist[d].key) /\ hist[d].key \in ValidKeys) =>
                /\ (d = Len(hist) /\ \A t \in Tasks : task[t].pc = "idle") =>
                      Visible(hist[d].key) = {} /\ SidecarAbsent(hist[d].key)
                /\ \A j \in Finished :
                      ( /\ d < j /\ hist[j].key = hist[d].key
                        /\ hist[j].op = "get_metadata"
                        /\ hist[j].status \notin SubstrateErrors ) =>
                          /\ NoPutBetween(hist[d].key, d, j) =>
                                hist[j].status = "NotFound"
                          /\ \A i \in (d + 1)..(j - 1) :
                                ( /\ Ok(i, "put", hist[d].key)
                                  /\ NoPutBetween(hist[d].key, i, j)
                                  /\ ~CalledBetween("delete", hist[d].key, i, j)
                                  /\ hist[j].status = "ok" ) =>
                                    hist[j].ret.size = Len(hist[i].data)

\* the finished call i ran with no operation in progress: every call before
\* it had returned when it began, and no other call began before it returned
Alone(i) ==
    /\ hist[i].start = i - 1
    /\ \A m \in Finished : m > i => hist[m].start >= i
    /\ \A t \in Tasks : task[t].pc # "idle" => task[t].start >= i

\* the finished call i is a reading of a key that found the key present
FoundPresent(i) ==
    /\ hist[i].status = "ok"
    /\ hist[i].op = "exists" => hist[i].ret = TRUE

(***************************************************************************)
(* C33  Presence is reported consistently: when only one key K is in use   *)
(* and the substrate does not fail, two readings of K (exists, get or      *)
(* get_metadata) made one right after the other with no operation in       *)
(* progress agree on whether K is present, whatever interleaving of puts   *)
(* and deletes on K came before.                                           *)
(***************************************************************************)
C33_PresenceConsistent ==
    (NoFault /\ Cardinality(AllKeys) = 1) =>
        \A i \in Finished :
            ( /\ i + 1 \in Finished
              /\ Alone(i) /\ Alone(i + 1)
              /\ hist[i].key \in ValidKeys
              /\ hist[i].op \in {"exists", "get", "get_metadata"}
              /\ hist[i + 1].op \in {"exists", "get", "get_metadata"} ) =>
                FoundPresent(i) = FoundPresent(i + 1)

\* the first n calls of a single client were successful puts and deletes of
\* valid keys, and readings
OnlyPutsAndDeletes(n) ==
    /\ sc.quota["t2"] = 0
    /\ \A i \in 1..n :
          hist[i].op \in {"put", "delete"} =>
              hist[i].key \in ValidKeys /\ hist[i].status = "ok"

\* the keys stored after the first n calls: put and not deleted since
StoredNow(n) ==
    {k \in ValidKeys :
        \E i \in 1..n :
            /\ hist[i].op = "put" /\ hist[i].key = k /\ hist[i].status = "ok"
            /\ \A d \in (i + 1)..n : ~(hist[d].op = "delete" /\ hist[d].key = k)}

(***************************************************************************)
(* C34  Listings track the current state: after a sequence of successful   *)
(* puts and deletes by one client, the key listing of (name, version)      *)
(* returns exactly the keys stored at that moment under that name and      *)
(* version, and the version listing of a name returns exactly the versions *)
(* under which a key of that name is stored at that moment; deleted keys   *)
(* and sidecar records contribute nothing.                                 *)
(***************************************************************************)
C34_ListingsTrackState ==
    \A l \in Finished :
        (OnlyPutsAndDeletes(l - 1) /\ hist[l].status \notin SubstrateErrors) =>
            LET k == hist[l].key
                S == StoredNow(l - 1)
                digests == {x.sha : x \in {y \in S : y.name = k.name
                                                    /\ y.version = k.version}}
                versions == {x.version : x \in {y \in S : y.name = k.name}}
            IN  /\ hist[l].op = "list_versions" =>
                      /\ hist[l].status = "ok"
                      /\ hist[l].ret = [shas |-> digests, n |-> Cardinality(digests)]
                /\ hist[l].op = "list_all_versions" =>
                      hist[l].status = "ok" /\ hist[l].ret = versions

\* a delete of k is running, or was running or began after the finished
\* call i returned
DeletedSince(k, i) ==
    \/ \E d \in Finished : d > i /\ hist[d].op = "delete" /\ hist[d].key = k
    \/ \E u \in Tasks : /\ task[u].pc # "idle"
                        /\ task[u].op = "delete" /\ task[u].key = k

\* the valid key k was created by a put that has returned successfully and
\* no delete of k has been called since
Created(k) ==
    /\ k \in ValidKeys
    /\ \E i \in Finished : Ok(i, "put", k) /\ ~DeletedSince(k, i)

\* the step leaves what is stored at the sidecar location of k as it is
SidecarKept(k) ==
    IF IsFileBackend
    THEN LET mp == _get_metadata_path(_get_package_path(k))
         IN  /\ (mp \in DOMAIN files') = (mp \in DOMAIN files)
             /\ mp \in DOMAIN files => files'[mp] = files[mp]
    ELSE LET name == _get_metadata_name(k)
         IN  /\ (name \in DOMAIN objects') = (name \in DOMAIN objects)
             /\ name \in DOMAIN objects => objects'[name] = objects[name]

\* two successful get_metadata(k) made after the successful put i of k, with
\* no delete of k called since that put, return the same record
SameRecord(k) ==
    \A i \in Finished, g \in Finished, h \in Finished :
        ( /\ Ok(i, "put", k) /\ ~DeletedSince(k, i)
          /\ Ok(g, "get_metadata", k) /\ Ok(h, "get_metadata", k)
          /\ Before(i, g) /\ Before(i, h) ) =>
            hist[g].ret = hist[h].ret

(***************************************************************************)
(* C35  Metadata is immutable: once a put of a valid key K has returned    *)
(* successfully and until the next delete(K) is called, every successful   *)
(* get_metadata(K) returns the same record, and no step of any operation,  *)
(* on K or on another key, rewrites or removes what is stored at K's       *)
(* sidecar location.                                                       *)
(***************************************************************************)
C35_MetadataImmutable ==
    /\ [](\A k \in AllKeys : SameRecord(k))
    /\ [][\A k \in AllKeys : Created(k) => SidecarKept(k)]_vars

\* the task t is a delete on the filesystem backend that takes this step
DeleteStep(t) ==
    /\ IsFileBackend
    /\ task[t].op = "delete" /\ task[t].pc # "idle"
    /\ task'[t] # task[t]

\* a directory goes away only in a step of the pruning loop of a delete,
\* one at a time: it is the directory the loop stands at, it is not the
\* root and it is empty, and the loop moves to its parent; a step of the
\* loop that removes nothing ends the delete
PrunesOnlyEmpty ==
    /\ \A d \in dirs \ dirs' :
          \E t \in Tasks :
              /\ DeleteStep(t) /\ task[t].pc = "f_del_rmdir"
              /\ task[t].up = d /\ d # <<>> /\ IsEmptyDir(d)
              /\ dirs' = dirs \ {d}
              /\ task'[t].pc = "f_del_rmdir" /\ task'[t].up = Parent(d)
    /\ \A t \in Tasks :
          (DeleteStep(t) /\ task[t].pc = "f_del_rmdir" /\ dirs' = dirs) =>
              task'[t].pc = "idle"

\* some put of k has been called, finished or not
PutCalled(k) ==
    \/ \E i \in Finished : hist[i].op = "put" /\ hist[i].key = k
    \/ \E u \in Tasks : /\ task[u].pc # "idle"
                        /\ task[u].op = "put" /\ task[u].key = k

\* a step of a delete of a key that was never put leaves the payload and
\* the sidecar of every other stored key where they are
SparesOtherKeys ==
    \A t \in Tasks :
        (DeleteStep(t) /\ ~PutCalled(task[t].key)) =>
            \A k \in AllKeys \cap ValidKeys :
                ( /\ k # task[t].key
                  /\ \E i \in Finished : Ok(i, "put", k) ) =>
                    LET path == _get_package_path(k)
                        mp == _get_metadata_path(path)
                    IN  /\ path \in DOMAIN files => path \in DOMAIN files'
                        /\ mp \in DOMAIN files => mp \in DOMAIN files'

(***************************************************************************)
(* C36  Delete prunes only empty ancestors: on the filesystem backend a    *)
(* delete removes a parent directory only if it is empty at that moment,   *)
(* goes on to the next parent only after a removal that succeeded, ends at *)
(* the first directory it cannot remove, never removes the root, and never *)
(* removes the payload or the sidecar of another key.                      *)
(***************************************************************************)
C36_DeletePrunesOnlyEmpty ==
    [][PrunesOnlyEmpty /\ SparesOtherKeys]_vars

\* the task u is a put on the filesystem backend that has written its
\* staging file and not yet published it
Staging(u) ==
    /\ task[u].op = "put"
    /\ task[u].pc \in {"f_put_mkdir", "f_put_move"}
    /\ task[u].tmp \in DOMAIN work

\* a step of a cleanup leaves the staging file of every such put in place
StagingKept ==
    \A t \in Tasks, u \in Tasks :
        ( /\ task[t].pc = "cleanup" /\ task'[t] # task[t]
          /\ Staging(u) ) =>
            /\ task[u].tmp \in DOMAIN work'
            /\ work'[task[u].tmp] = work[task[u].tmp]

\* where clients only put and clean up and the substrate does not fail,
\* every finished put of a valid key stored its payload or found the key
\* stored, and what is stored under the key is a whole payload
PutsUnharmed ==
    (IsFileBackend /\ NoFault /\ sc.ops \subseteq {"put", "cleanup"}) =>
        /\ \A i \in Finished :
              (hist[i].op = "put" /\ hist[i].key \in ValidKeys) =>
                  hist[i].status \in {"ok", "AlreadyExists"}
        /\ \A k \in AllKeys \cap ValidKeys : Visible(k) \subseteq PutSources(k)

(***************************************************************************)
(* C37  Cleanup does not break a running put: on the filesystem backend a  *)
(* cleanup that runs while a put is in progress does not remove that put's *)
(* staging file before it is published, and the put neither fails nor      *)
(* publishes an incomplete payload.                                        *)
(***************************************************************************)
C37_CleanupSparesPut ==
    /\ []PutsUnharmed
    /\ [][IsFileBackend => StagingKept]_vars

(***************************************************************************)
(* C38  Cleanup is non-fatal: on both backends every cleanup that has      *)
(* finished has returned normally, whether or not removing a staging file  *)
(* failed.                                                                 *)
(***************************************************************************)
C38_CleanupNonFatal ==
    \A i \in Finished : hist[i].op = "cleanup" => hist[i].status = "ok"

(***************************************************************************)
(* C39  Initialize ensures the bucket: on the object-storage backend, once *)
(* an initialize has returned successfully the configured bucket exists,   *)
(* whether it existed before the call, was created by the call, or was     *)
(* created by another initializer between the call's existence check and   *)
(* its create request.                                                     *)
(***************************************************************************)
C39_InitializeEnsuresBucket ==
    IsMinioBackend =>
        \A i \in Finished :
            (hist[i].op = "initialize" /\ hist[i].status = "ok") => bucket

\* two initializers ran at once on a store without the bucket and without
\* failures: one created it, the other's create request was refused and its
\* second attempt returned successfully
C39_Witness ==
    /\ IsMinioBackend /\ NoFault /\ bucket
    /\ \E i \in Finished, j \in Finished :
          /\ hist[i].op = "initialize" /\ hist[i].status = "ok"
          /\ hist[j].op = "initialize" /\ hist[j].status = "ok"
          /\ hist[i].t # hist[j].t
          /\ hist[i].attempts = 1 /\ hist[j].attempts = 2
          /\ ~Before(i, j)
====
